---- MODULE Spec2Model ----
(***************************************************************************)
(* A model of src/platform/guigtk.cpp, the GTK binding of SolveSpace's     *)
(* platform layer: the JSON-backed settings store, window geometry         *)
(* persistence, pointer and key event translation, and the operations      *)
(* that switch over enum values.                                           *)
(*                                                                         *)
(* Strings are C strings (they reach json-c through c_str()).  The         *)
(* machine word is WordBits wide: uint32_t and int32_t convert modulo      *)
(* 2^WordBits, the model checker's own integers being too narrow for       *)
(* 2^32.  A double is modelled by the number of halves it holds (3 is      *)
(* 1.5).                                                                   *)
(***************************************************************************)
EXTENDS Integers, Sequences, FiniteSets, TLC

VARIABLES
    env,        \* the process environment: XDG_CONFIG_HOME and HOME
    dirState,   \* what stat() finds at the solvespace config directory
    file,       \* the content of settings.json
    alive,      \* a SettingsImplGtk object exists (GetSettings was called)
    path,       \* SettingsImplGtk::_path
    json,       \* SettingsImplGtk::_json, key -> json_object
    frozen,     \* history: key -> the last Freeze call on it in this session
    saved,      \* history: key -> the last Freeze saved by the earlier session
    win,        \* the GtkWindow: visibility, position, size, maximized
    geom,       \* history: the geometry FreezePosition last stored
    cb,         \* the application's callbacks: which are set
    dlg,        \* the MessageDialogImplGtk: buttons, default response, icon
    item,       \* the MenuItemImplGtk: indicator and checked state
    proc,       \* "running", or "aborted" once an ssassert failed
    menu,       \* a MenuImplGtk and a MenuBarImplGtk: children and vectors
    editor,     \* the GtkEditorOverlay of the window: entry, grab, focus
    fdlg,       \* a FileDialogImplGtk: filters, extensions, folder, name
    timer,      \* a TimerImplGtk and its timeouts in the main loop
    last        \* the last operation and what it returned or did

vars == <<env, dirState, file, alive, path, json, frozen, saved, win, geom,
          cb, dlg, item, proc, last, menu, editor, fdlg, timer>>

settingsVars == <<env, dirState, file, alive, path, json, frozen, saved>>

widgetVars == <<cb, dlg, item, proc, menu, editor, fdlg, timer>>

-----------------------------------------------------------------------------
(* The objects as their constructors leave them *)

\* The two windows of the application
Windows == {"graphics", "text"}

\* A GtkWindow that was created and not shown. The constructor does not
\* initialise _is_fullscreen: is_fullscreen is the set of the values it can
\* hold, both of them while it is indeterminate. state_event is history:
\* the new_window_state of the last window-state event, if there was one
NewWindow == [visible |-> FALSE, left |-> 10, top |-> 20, width |-> 640,
              height |-> 480, maximized |-> FALSE, kind |-> "TOPLEVEL",
              cursor |-> "default", is_fullscreen |-> BOOLEAN,
              state_event |-> <<>>]

\* No function-valued field of Window is set
NoCallbacks == [onMouseEvent |-> FALSE,
                onKeyboardEvent |-> [w \in Windows |-> FALSE],
                onTrigger |-> FALSE, onEditingDone |-> FALSE,
                onFullScreen |-> FALSE]

\* MessageDialogImplGtk(): BUTTONS_NONE, MESSAGE_INFO; added is history: the
\* Response each button was added with
NewDialog == [buttons |-> <<>>, default |-> "NONE", icon |-> "none",
              added |-> <<>>]

\* GtkMenuItem(): _has_indicator(false), _synthetic_event(false), not
\* checked; activated and triggered are history: the user's activations
\* while onTrigger was set, and the calls of onTrigger
NewItem == [has_indicator |-> FALSE, draw_as_radio |-> FALSE,
            active |-> FALSE, synthetic_event |-> FALSE,
            activated |-> 0, triggered |-> 0]

\* A MenuImplGtk and a MenuBarImplGtk with nothing added; added and
\* barAdded are history: what was added since the last Clear
NewMenu == [gtkMenu |-> <<>>, menuItems |-> <<>>, subMenus |-> <<>>,
            added |-> <<>>,
            gtkMenuBar |-> <<>>, barSubMenus |-> <<>>, barAdded |-> <<>>]

\* GtkEditorOverlay(): the entry is not shown (set_no_show_all), the overlay
\* holds no grab, the entry has no text; focus is the focus widget of the
\* window. down and held are the keyboard and history: the keys that are
\* down, and those of them whose press the editor consumed
NewEditor == [visible |-> FALSE, has_grab |-> FALSE, focus |-> "gl",
              text |-> "", down |-> {}, held |-> {}]

\* TimerImplGtk(): an empty _connection, onTimeout not set. connection is
\* the timeout _connection refers to, 0 for none; sources are the timeouts
\* that are connected to the main loop; wound numbers the timeouts, by the
\* calls of WindUp; invoked is history: the timeouts that called onTimeout
NewTimer == [alive |-> TRUE, onTimeout |-> FALSE, connection |-> 0,
             sources |-> {}, wound |-> 0, invoked |-> <<>>]

\* FileDialogImplGtk() of CreateOpenFileDialog: no filter, no extension, no
\* name typed, the folder the working directory; filter is the index of the
\* selected filter, 0 when there is none; undefined and chosen are history:
\* whether front() was called on an empty vector, and what FreezeChoices saw
NewFileDialog == [action |-> "OPEN", filters |-> <<>>, extensions |-> <<>>,
                  filter |-> 0, folder |-> "/cwd",
                  name |-> [stem |-> "", ext |-> ""],
                  undefined |-> "no", chosen |-> <<>>]

\* The widgets before the application touches them
NewWidgets ==
    /\ win = NewWindow
    /\ geom = [k \in {} |-> 0]
    /\ cb = NoCallbacks
    /\ dlg = NewDialog
    /\ item = NewItem
    /\ proc = "running"
    /\ menu = NewMenu
    /\ editor = NewEditor
    /\ fdlg = NewFileDialog
    /\ timer = NewTimer

\* A settings object of a process without a config directory
MemorySettings ==
    /\ env = [xdg |-> "(unset)", home |-> "(unset)"]
    /\ dirState = "absent"
    /\ file = [state |-> "absent"]
    /\ alive = TRUE
    /\ path = ""
    /\ json = [k \in {} |-> 0]
    /\ frozen = [k \in {} |-> 0]
    /\ saved = [k \in {} |-> 0]

-----------------------------------------------------------------------------
(* Machine integers *)

\* The width of int and uint32_t in the model
WordBits == 16

Two32 == 2 ^ WordBits
Two31 == 2 ^ (WordBits - 1)

\* A number json-c holds in 64 bits that no int32_t holds
BigNumber == Two32 + 5

\* uint32_t -> int32_t, as in the call json_object_new_int(value)
ToInt32(u) == IF u % Two32 >= Two31 THEN (u % Two32) - Two32 ELSE u % Two32

\* int32_t -> uint32_t, as in ThawInt's return of json_object_get_int()
ToUint32(i) == i % Two32

\* json-c clamps a 64-bit integer to the int32_t range
ClampInt32(n) == IF n >= Two31 THEN Two31 - 1
                 ELSE IF n < -Two31 THEN -Two31 ELSE n

\* C's conversion of a double (in halves) to an integer truncates towards zero
TruncHalves(h) == IF h >= 0 THEN h \div 2 ELSE -((-h) \div 2)

-----------------------------------------------------------------------------
(* Values of the model *)

\* The values the sessions freeze, and the defaults they thaw with
Uint32Values   == {7, Two32 - 1}
DoubleValues   == {-3}
StringValues   == {"7"}
DoubleDefaults == {-3, 4}
StringDefaults == {"", "7"}

\* Two keys of the application; the second one is only frozen as an
\* integer or a string
Keys     == {"a", "b"}
FirstKey == "a"

\* A scalar as the Settings interface passes it, tagged with its kind
IntArg(u)    == [kind |-> "Int", u |-> u]
BoolArg(b)   == [kind |-> "Bool", b |-> b]
FloatArg(h)  == [kind |-> "Float", h |-> h]
StringArg(s) == [kind |-> "String", s |-> s]

Defaults == {IntArg(u) : u \in Uint32Values} \cup {BoolArg(b) : b \in BOOLEAN}
            \cup {FloatArg(h) : h \in DoubleDefaults}
            \cup {StringArg(s) : s \in StringDefaults}

-----------------------------------------------------------------------------
(* json-c objects *)

EmptyObj == [k \in {} |-> 0]

JInt(n)    == [type |-> "int", n |-> n]
JBool(b)   == [type |-> "boolean", b |-> b]
JDouble(h) == [type |-> "double", h |-> h]
JString(s) == [type |-> "string", s |-> s]

\* json_object_object_add: the key is added, or its value replaced
ObjectAdd(j, key, v) ==
    [k \in DOMAIN j \cup {key} |-> IF k = key THEN v ELSE j[k]]

\* A serializer that prints a double without its fraction
DoubleTextShort(h) == ToString(TruncHalves(h))

\* The text json-c writes for a double held in halves
DoubleText(h) ==
    (IF h < 0 THEN "-" ELSE "") \o
    ToString((IF h < 0 THEN -h ELSE h) \div 2) \o
    (IF h % 2 = 0 THEN ".0" ELSE ".5")

\* json_object_to_json_string of a scalar
JsonText(v) ==
    CASE v.type = "int"     -> ToString(v.n)
      [] v.type = "boolean" -> IF v.b THEN "true" ELSE "false"
      [] v.type = "double"  -> DoubleText(v.h)
      [] v.type = "string"  -> "\"" \o v.s \o "\""

\* The numbers a string of the model can be parsed as
Numerals == -9 .. 9

IsNumeral(s) == \E n \in Numerals : ToString(n) = s

NumeralOf(s) == CHOOSE n \in Numerals : ToString(n) = s

\* json_object_get_int
GetInt(v) ==
    CASE v.type = "int"     -> ClampInt32(v.n)
      [] v.type = "double"  -> ClampInt32(TruncHalves(v.h))
      [] v.type = "boolean" -> IF v.b THEN 1 ELSE 0
      [] v.type = "string"  -> IF IsNumeral(v.s) THEN NumeralOf(v.s) ELSE 0

\* json_object_get_boolean
GetBoolean(v) ==
    CASE v.type = "boolean" -> v.b
      [] v.type = "int"     -> v.n # 0
      [] v.type = "double"  -> v.h # 0
      [] v.type = "string"  -> v.s # ""

\* json_object_get_double, in halves
GetDouble(v) ==
    CASE v.type = "double"  -> v.h
      [] v.type = "int"     -> 2 * v.n
      [] v.type = "boolean" -> IF v.b THEN 2 ELSE 0
      [] v.type = "string"  -> IF IsNumeral(v.s) THEN 2 * NumeralOf(v.s) ELSE 0

\* json_object_get_string
GetString(v) == IF v.type = "string" THEN v.s ELSE JsonText(v)

-----------------------------------------------------------------------------
(* settings.json *)

\* Every scalar json_object of the model
JsonValues ==
    {JInt(n) : n \in {ToInt32(u) : u \in Uint32Values} \cup {BigNumber}}
    \cup {JBool(b) : b \in BOOLEAN}
    \cup {JDouble(h) : h \in DoubleValues}
    \cup {JString(s) : s \in StringValues}

\* json_object_to_file_ext(path, json, JSON_C_TO_STRING_PRETTY): every
\* member is written as the text of its value
Serialize(j) == [k \in DOMAIN j |-> JsonText(j[k])]

\* The json_object the tokener builds from the text of one member
ParseText(t) == CHOOSE v \in JsonValues : JsonText(v) = t

\* json_object_from_file on a file that holds a flat JSON object
Parse(doc) == [k \in DOMAIN doc |-> ParseText(doc[k])]

NoFile      == [state |-> "absent"]
CorruptFile == [state |-> "corrupt"]
JsonFile(doc) == [state |-> "json", doc |-> doc]

\* The files a first session can find
InitFiles ==
    {NoFile, CorruptFile, JsonFile(EmptyObj),
     JsonFile([k \in {"a"} |-> ToString(BigNumber)])}

-----------------------------------------------------------------------------
(* SettingsImplGtk::GetConfigPath *)

Unset == "(unset)"

Envs == [xdg : {Unset, "", "/x"}, home : {Unset, "/h"}]

DirStates == {"dir", "absent", "notdir", "noaccess"}

\* Path::Join on a non-empty path
Join(p, component) == p \o "/" \o component

\* Lines 72-83: the directory GetConfigPath looks at; Unset when neither
\* variable is set and it returns early
ConfigHome(e) ==
    LET base == IF e.xdg # Unset THEN e.xdg
                ELSE IF e.home # Unset THEN Join(e.home, ".config")
                ELSE Unset
    IN  IF base = Unset THEN Unset
        ELSE IF base # "" THEN Join(base, "solvespace")
        ELSE base

\* stat(configHomeC): the empty path does not exist
Stat(home, ds) == IF home = "" THEN "absent" ELSE ds

\* mkdir(configHomeC, 0777): fails on the empty path
Mkdir(home, mkdirOk) == home # "" /\ mkdirOk

\* GetConfigPath without the S_ISDIR test
GetConfigPathNoDirCheck(e, ds, mkdirOk) ==
    LET home == ConfigHome(e)
        st   == Stat(home, ds)
    IN  IF home = Unset
        THEN [path |-> "", dir |-> ds,
              log |-> <<"neither XDG_CONFIG_HOME nor HOME are set">>]
        ELSE IF st = "absent"
        THEN IF Mkdir(home, mkdirOk)
             THEN [path |-> Join(home, "settings.json"), dir |-> "dir",
                   log |-> <<>>]
             ELSE [path |-> "", dir |-> ds, log |-> <<"cannot mkdir">>]
        ELSE IF st = "noaccess"
        THEN [path |-> "", dir |-> ds, log |-> <<"cannot stat">>]
        ELSE [path |-> Join(home, "settings.json"), dir |-> ds, log |-> <<>>]

\* The path returned, the directory's state afterwards, and what was logged
GetConfigPath(e, ds, mkdirOk) ==
    LET home == ConfigHome(e)
        st   == Stat(home, ds)
    IN  IF home = Unset
        THEN [path |-> "", dir |-> ds,
              log |-> <<"neither XDG_CONFIG_HOME nor HOME are set">>]
        ELSE IF st = "absent"
        THEN IF Mkdir(home, mkdirOk)
             THEN [path |-> Join(home, "settings.json"), dir |-> "dir",
                   log |-> <<>>]
             ELSE [path |-> "", dir |-> ds, log |-> <<"cannot mkdir">>]
        ELSE IF st = "noaccess"
        THEN [path |-> "", dir |-> ds, log |-> <<"cannot stat">>]
        ELSE IF st = "notdir"
        THEN [path |-> "", dir |-> ds, log |-> <<"is not a directory">>]
        ELSE [path |-> Join(home, "settings.json"), dir |-> ds, log |-> <<>>]

-----------------------------------------------------------------------------
(* SettingsImplGtk: the eight accessors, as functions of _json *)

\* A FreezeInt that saturates where the conversion to int32_t wraps
FreezeIntClamping(j, key, value) == ObjectAdd(j, key, JInt(ClampInt32(value)))

FreezeInt(j, key, value) == ObjectAdd(j, key, JInt(ToInt32(value)))

ThawInt(j, key, defaultValue) ==
    IF key \in DOMAIN j THEN ToUint32(GetInt(j[key])) ELSE defaultValue

FreezeBool(j, key, value) == ObjectAdd(j, key, JBool(value))

ThawBool(j, key, defaultValue) ==
    IF key \in DOMAIN j THEN GetBoolean(j[key]) ELSE defaultValue

FreezeFloat(j, key, value) == ObjectAdd(j, key, JDouble(value))

ThawFloat(j, key, defaultValue) ==
    IF key \in DOMAIN j THEN GetDouble(j[key]) ELSE defaultValue

FreezeString(j, key, value) == ObjectAdd(j, key, JString(value))

ThawString(j, key, defaultValue) ==
    IF key \in DOMAIN j THEN GetString(j[key]) ELSE defaultValue

\* FreezeT(key, value) for the kind the argument carries
Freeze(j, key, arg) ==
    CASE arg.kind = "Int"    -> FreezeInt(j, key, arg.u)
      [] arg.kind = "Bool"   -> FreezeBool(j, key, arg.b)
      [] arg.kind = "Float"  -> FreezeFloat(j, key, arg.h)
      [] arg.kind = "String" -> FreezeString(j, key, arg.s)

\* ThawT(key, defaultValue) for the kind the default carries
Thaw(j, key, def) ==
    CASE def.kind = "Int"    -> IntArg(ThawInt(j, key, def.u))
      [] def.kind = "Bool"   -> BoolArg(ThawBool(j, key, def.b))
      [] def.kind = "Float"  -> FloatArg(ThawFloat(j, key, def.h))
      [] def.kind = "String" -> StringArg(ThawString(j, key, def.s))

-----------------------------------------------------------------------------
(* SettingsImplGtk: construction and destruction *)

\* A json_object_from_file whose every failure reads as ENOENT
FromFileSilent(f) ==
    IF f.state = "json" THEN [null |-> FALSE, obj |-> Parse(f.doc)]
    ELSE [null |-> TRUE, enoent |-> TRUE]

\* json_object_from_file: NULL with errno = ENOENT when the file does not
\* exist, NULL with another error when it does not parse
FromFile(f) ==
    IF f.state = "json" THEN [null |-> FALSE, obj |-> Parse(f.doc)]
    ELSE [null |-> TRUE, enoent |-> f.state = "absent"]

\* The part of the state the settings operations leave alone
OtherThanSettings == UNCHANGED <<win, geom, cb, dlg, item, proc,
                   menu, editor, fdlg, timer>>

\* SettingsImplGtk(), run by the first GetSettings() of a process
Construct ==
    /\ ~alive
    /\ \E mkdirOk \in BOOLEAN :
        LET r    == GetConfigPath(env, dirState, mkdirOk)
            read == IF r.path = "" THEN [null |-> TRUE, enoent |-> TRUE]
                    ELSE FromFile(file)
            log1 == IF r.path = "" THEN <<"settings will not be saved">>
                    ELSE IF read.null /\ ~read.enoent
                    THEN <<"cannot load settings">>
                    ELSE <<>>
        IN  /\ path' = r.path
            /\ dirState' = r.dir
            /\ json' = IF read.null THEN EmptyObj ELSE read.obj
            /\ saved' = IF read.null THEN EmptyObj ELSE saved
            /\ last' = [op |-> "Construct", log |-> r.log \o log1]
    /\ alive' = TRUE
    /\ frozen' = EmptyObj
    /\ UNCHANGED <<env, file>>
    /\ OtherThanSettings

SaveResults == {"ok", "openfail", "writefail"}

\* json_object_to_file_ext: the file holds the store's text when it
\* succeeds, is left alone when it cannot be opened, and is cut short when
\* a write fails
ToFile(f, j, res) ==
    CASE res = "ok"        -> JsonFile(Serialize(j))
      [] res = "openfail"  -> f
      [] res = "writefail" -> CorruptFile

\* ~SettingsImplGtk(), run when the process exits
Destroy ==
    /\ alive
    /\ \E res \in SaveResults :
        /\ res # "ok" => path # ""
        /\ file' = IF path # "" THEN ToFile(file, json, res) ELSE file
        /\ saved' = IF path # "" /\ res = "ok"
                    THEN [k \in DOMAIN saved \cup DOMAIN frozen |->
                            IF k \in DOMAIN frozen THEN frozen[k] ELSE saved[k]]
                    ELSE EmptyObj
        /\ last' = [op |-> "Destroy", save |-> path # "",
                    found |-> file.state,
                    log |-> IF path # "" /\ res # "ok"
                            THEN <<"cannot save settings">> ELSE <<>>]
    /\ alive' = FALSE
    /\ path' = ""
    /\ json' = EmptyObj
    /\ frozen' = EmptyObj
    /\ UNCHANGED <<env, dirState>>
    /\ OtherThanSettings

-----------------------------------------------------------------------------
(* SettingsImplGtk: calls of the accessors *)

\* What a Freeze call leaves besides _json: the history of the key
Froze(key, arg) ==
    /\ frozen' = ObjectAdd(frozen, key, arg)
    /\ geom' = IF \E w \in DOMAIN geom : key \in geom[w].keys
               THEN [w \in {v \in DOMAIN geom : key \notin geom[v].keys} |->
                       geom[w]]
               ELSE geom
    /\ last' = [op |-> "Freeze", key |-> key, arg |-> arg]
    /\ UNCHANGED <<env, dirState, file, alive, path, saved, win, cb, dlg, item,
                   proc,
                   menu, editor, fdlg, timer>>

\* What a Thaw call leaves: its result
Thawed(key, def, ret) ==
    /\ last' = [op |-> "Thaw", key |-> key, def |-> def, ret |-> ret]
    /\ UNCHANGED <<env, dirState, file, alive, path, frozen, saved>>
    /\ OtherThanSettings

\* A ThawInt that stores the default it returns
ThawIntCallInserting(key, defaultValue) ==
    /\ alive
    /\ json' = IF key \in DOMAIN json THEN json
               ELSE FreezeInt(json, key, defaultValue)
    /\ Thawed(key, IntArg(defaultValue),
              IntArg(ThawInt(json, key, defaultValue)))

FreezeIntCall(key, value) ==
    /\ alive
    /\ json' = FreezeInt(json, key, value)
    /\ Froze(key, IntArg(value))

ThawIntCall(key, defaultValue) ==
    /\ alive
    /\ json' = json
    /\ Thawed(key, IntArg(defaultValue),
              IntArg(ThawInt(json, key, defaultValue)))

FreezeBoolCall(key, value) ==
    /\ alive
    /\ json' = FreezeBool(json, key, value)
    /\ Froze(key, BoolArg(value))

ThawBoolCall(key, defaultValue) ==
    /\ alive
    /\ json' = json
    /\ Thawed(key, BoolArg(defaultValue),
              BoolArg(ThawBool(json, key, defaultValue)))

FreezeFloatCall(key, value) ==
    /\ alive
    /\ json' = FreezeFloat(json, key, value)
    /\ Froze(key, FloatArg(value))

ThawFloatCall(key, defaultValue) ==
    /\ alive
    /\ json' = json
    /\ Thawed(key, FloatArg(defaultValue),
              FloatArg(ThawFloat(json, key, defaultValue)))

FreezeStringCall(key, value) ==
    /\ alive
    /\ json' = FreezeString(json, key, value)
    /\ Froze(key, StringArg(value))

ThawStringCall(key, defaultValue) ==
    /\ alive
    /\ json' = json
    /\ Thawed(key, StringArg(defaultValue),
              StringArg(ThawString(json, key, defaultValue)))

-----------------------------------------------------------------------------
(* WindowImplGtk: visibility and geometry *)

\* The settings keys FreezePosition writes for a window key
PositionKeys(key) ==
    {key \o "_Left", key \o "_Top", key \o "_Width", key \o "_Height",
     key \o "_Maximized"}

\* gtk_window_move
Move(w, left, top) == [w EXCEPT !.left = left, !.top = top]

\* gtk_window_resize: GTK rejects a size that is not positive
Resize(w, width, height) ==
    IF width > 0 /\ height > 0
    THEN [w EXCEPT !.width = width, !.height = height]
    ELSE w

\* gtk_window_maximize
Maximize(w) == [w EXCEPT !.maximized = TRUE]

\* WindowImplGtk::SetVisible
SetVisible(visible) ==
    /\ win' = [win EXCEPT !.visible = visible]
    /\ last' = [op |-> "SetVisible", visible |-> visible]
    /\ UNCHANGED <<geom, cb, dlg, item, proc,
                   menu, editor, fdlg, timer>>
    /\ UNCHANGED settingsVars

\* The user drags, resizes, maximizes or restores the window, which
\* get_position, get_size and is_maximized then report
UserPlaces(left, top, width, height, maximized) ==
    /\ win.visible
    /\ win' = [win EXCEPT !.left = left, !.top = top, !.width = width,
                          !.height = height, !.maximized = maximized]
    /\ last' = [op |-> "UserPlaces"]
    /\ UNCHANGED <<geom, cb, dlg, item, proc,
                   menu, editor, fdlg, timer>>
    /\ UNCHANGED settingsVars

\* The same calls, with the ints saturated to the range of uint32_t
FreezeGeometryClamping(j, key, w) ==
    LET Sat(i) == IF i < 0 THEN 0 ELSE i
        j1 == FreezeInt(j,  key \o "_Left",   Sat(w.left))
        j2 == FreezeInt(j1, key \o "_Top",    Sat(w.top))
        j3 == FreezeInt(j2, key \o "_Width",  Sat(w.width))
        j4 == FreezeInt(j3, key \o "_Height", Sat(w.height))
    IN  FreezeBool(j4, key \o "_Maximized", w.maximized)

\* The five Freeze calls of FreezePosition, on _json; each int is passed
\* as the uint32_t FreezeInt takes
FreezeGeometry(j, key, w) ==
    LET j1 == FreezeInt(j,  key \o "_Left",   ToUint32(w.left))
        j2 == FreezeInt(j1, key \o "_Top",    ToUint32(w.top))
        j3 == FreezeInt(j2, key \o "_Width",  ToUint32(w.width))
        j4 == FreezeInt(j3, key \o "_Height", ToUint32(w.height))
    IN  FreezeBool(j4, key \o "_Maximized", w.maximized)

\* The history of FreezeGeometry: the calls, key by key
FrozenGeometry(f, key, w) ==
    LET f1 == ObjectAdd(f,  key \o "_Left",   IntArg(ToUint32(w.left)))
        f2 == ObjectAdd(f1, key \o "_Top",    IntArg(ToUint32(w.top)))
        f3 == ObjectAdd(f2, key \o "_Width",  IntArg(ToUint32(w.width)))
        f4 == ObjectAdd(f3, key \o "_Height", IntArg(ToUint32(w.height)))
    IN  ObjectAdd(f4, key \o "_Maximized", BoolArg(w.maximized))

\* WindowImplGtk::FreezePosition, of a window that is visible
FreezePositionVisible(key) ==
    /\ win.visible
    /\ json' = FreezeGeometry(json, key, win)
    /\ frozen' = FrozenGeometry(frozen, key, win)
    /\ geom' = ObjectAdd(geom, key,
                         [stored |-> TRUE, skipped |-> FALSE,
                          keys |-> PositionKeys(key),
                          left |-> win.left, top |-> win.top,
                          width |-> win.width, height |-> win.height,
                          maximized |-> win.maximized])
    /\ last' = [op |-> "FreezePosition", key |-> key, visible |-> TRUE]
    /\ UNCHANGED <<env, dirState, file, alive, path, saved, win, cb, dlg, item,
                   proc,
                   menu, editor, fdlg, timer>>

\* A FreezePosition without the visibility test
FreezePositionAlways(key) ==
    /\ ~win.visible
    /\ json' = FreezeGeometry(json, key, win)
    /\ geom' = IF key \in DOMAIN geom
               THEN [geom EXCEPT ![key].skipped = TRUE]
               ELSE ObjectAdd(geom, key,
                              [stored |-> FALSE, skipped |-> TRUE,
                               keys |-> PositionKeys(key),
                               left |-> 0, top |-> 0, width |-> 0,
                               height |-> 0, maximized |-> FALSE])
    /\ last' = [op |-> "FreezePosition", key |-> key, visible |-> FALSE]
    /\ UNCHANGED <<env, dirState, file, alive, path, frozen, saved, win, cb,
                   dlg, item, proc,
                   menu, editor, fdlg, timer>>

\* WindowImplGtk::FreezePosition, of a window that is not visible: the
\* early return
FreezePositionHidden(key) ==
    /\ ~win.visible
    /\ json' = json
    /\ geom' = IF key \in DOMAIN geom
               THEN [geom EXCEPT ![key].skipped = TRUE]
               ELSE ObjectAdd(geom, key,
                              [stored |-> FALSE, skipped |-> TRUE,
                               keys |-> PositionKeys(key),
                               left |-> 0, top |-> 0, width |-> 0,
                               height |-> 0, maximized |-> FALSE])
    /\ last' = [op |-> "FreezePosition", key |-> key, visible |-> FALSE]
    /\ UNCHANGED <<env, dirState, file, alive, path, frozen, saved, win, cb,
                   dlg, item, proc,
                   menu, editor, fdlg, timer>>

FreezePosition(key) ==
    /\ alive
    /\ \/ FreezePositionVisible(key)
       \/ FreezePositionHidden(key)

\* WindowImplGtk::ThawPosition: the geometry it moves and resizes the
\* window to, and whether it maximizes it
ThawGeometry(j, key, w) ==
    [left   |-> ToInt32(ThawInt(j, key \o "_Left",   ToUint32(w.left))),
     top    |-> ToInt32(ThawInt(j, key \o "_Top",    ToUint32(w.top))),
     width  |-> ToInt32(ThawInt(j, key \o "_Width",  ToUint32(w.width))),
     height |-> ToInt32(ThawInt(j, key \o "_Height", ToUint32(w.height))),
     maximize |-> ThawBool(j, key \o "_Maximized", FALSE)]

ThawPosition(key) ==
    /\ alive
    /\ LET g  == ThawGeometry(json, key, win)
           w1 == Resize(Move(win, g.left, g.top), g.width, g.height)
       IN  /\ win' = IF g.maximize THEN Maximize(w1) ELSE w1
           /\ last' = [op |-> "ThawPosition", key |-> key, was |-> win,
                       move |-> <<g.left, g.top>>,
                       resize |-> <<g.width, g.height>>,
                       maximize |-> g.maximize]
    /\ UNCHANGED <<geom, cb, dlg, item, proc,
                   menu, editor, fdlg, timer>>
    /\ UNCHANGED settingsVars

-----------------------------------------------------------------------------
(* A window and the settings store of a running program *)

WindowKey == "w"

Lefts   == {-Two31, -1, 10}
Tops    == {-1, 20}
Widths  == {1, 640}
Heights == {480}

InitPosition ==
    /\ MemorySettings
    /\ NewWidgets
    /\ last = [op |-> "none"]

NextPosition ==
    \/ \E visible \in BOOLEAN : SetVisible(visible)
    \/ \E left \in Lefts, top \in Tops, width \in Widths, height \in Heights,
          maximized \in BOOLEAN :
            UserPlaces(left, top, width, height, maximized)
    \/ FreezePosition(WindowKey)
    \/ ThawPosition(WindowKey)
    \/ \E value \in Uint32Values :
            FreezeIntCall(WindowKey \o "_Left", value)

SpecPosition == InitPosition /\ [][NextPosition]_vars

\* After ThawPosition(key) the calls and the window are as FreezePosition
\* found them, for every key whose five settings are as FreezePosition left
\* them
RestoresGeometry ==
    (last.op = "ThawPosition" /\ last.key \in DOMAIN geom
        /\ geom[last.key].stored) =>
        LET g == geom[last.key]
        IN  /\ last.move = <<g.left, g.top>>
            /\ last.resize = <<g.width, g.height>>
            /\ last.maximize = g.maximized
            /\ win.left = g.left /\ win.top = g.top
            /\ win.width = g.width /\ win.height = g.height
            /\ g.maximized => win.maximized

\* C6: FreezePosition on a visible window followed by ThawPosition moves and
\* resizes the window to the frozen left, top, width and height and calls
\* maximize exactly if the frozen window was maximized, for every signed
\* coordinate, negative ones included.
C6_PositionRoundTrip == RestoresGeometry

\* A window frozen at a negative left and the least top, then moved, was
\* moved back by ThawPosition and not maximized
C6_Witness ==
    /\ last.op = "ThawPosition"
    /\ last.key \in DOMAIN geom
    /\ geom[last.key].stored
    /\ last.move = <<-1, -1>>
    /\ last.was.left = 10
    /\ last.was.maximized
    /\ ~last.maximize
    /\ win.left = -1

\* The same at the least int
C6_WitnessMin ==
    /\ last.op = "ThawPosition"
    /\ last.key \in DOMAIN geom
    /\ geom[last.key].stored
    /\ last.move[1] = -Two31
    /\ last.maximize

\* C7: FreezePosition on a window that is not visible leaves the settings
\* store unchanged; ThawPosition afterwards restores the geometry frozen
\* while the window was last visible, or, with nothing frozen, keeps the
\* window's position and size and does not maximize it.
C7_HiddenWindowNotFrozen ==
    /\ [](/\ RestoresGeometry
          /\ (/\ last.op = "ThawPosition"
              /\ PositionKeys(last.key) \cap DOMAIN json = {}) =>
                /\ last.move = <<last.was.left, last.was.top>>
                /\ last.resize = <<last.was.width, last.was.height>>
                /\ ~last.maximize
                /\ win = last.was)
    /\ [][(last'.op = "FreezePosition" /\ ~win.visible) =>
            json' = json /\ file' = file]_vars

\* A window frozen while visible, hidden, moved (by ThawPosition) and
\* frozen again while hidden was restored to the visible geometry
C7_Witness ==
    /\ last.op = "ThawPosition"
    /\ last.key \in DOMAIN geom
    /\ geom[last.key].stored
    /\ geom[last.key].skipped
    /\ ~last.was.visible
    /\ win.left = geom[last.key].left
    /\ last.maximize

\* Nothing was frozen but by a hidden window: ThawPosition kept the window
C7_WitnessNothingFrozen ==
    /\ last.op = "ThawPosition"
    /\ last.key \in DOMAIN geom
    /\ ~geom[last.key].stored
    /\ geom[last.key].skipped
    /\ win = last.was
    /\ win.left = -1

-----------------------------------------------------------------------------
(* The settings store over the sessions of the program *)

InitSettings ==
    /\ env \in Envs
    /\ dirState \in DirStates
    /\ file \in InitFiles
    /\ file # NoFile => dirState = "dir" /\ ConfigHome(env) \notin {Unset, ""}
    /\ alive = FALSE
    /\ path = ""
    /\ json = EmptyObj
    /\ frozen = EmptyObj
    /\ saved = EmptyObj
    /\ NewWidgets
    /\ last = [op |-> "none"]

NextSettings ==
    \/ Construct
    \/ Destroy
    \/ \E key \in Keys, value \in Uint32Values : FreezeIntCall(key, value)
    \/ \E key \in Keys, def \in Uint32Values : ThawIntCall(key, def)
    \/ \E value \in BOOLEAN : FreezeBoolCall(FirstKey, value)
    \/ \E key \in Keys, def \in BOOLEAN : ThawBoolCall(key, def)
    \/ \E value \in DoubleValues : FreezeFloatCall(FirstKey, value)
    \/ \E key \in Keys, def \in DoubleDefaults : ThawFloatCall(key, def)
    \/ \E key \in Keys, value \in StringValues : FreezeStringCall(key, value)
    \/ \E key \in Keys, def \in StringDefaults : ThawStringCall(key, def)

SpecSettings == InitSettings /\ [][NextSettings]_vars

-----------------------------------------------------------------------------
(* Claims on the settings store *)

\* Every key frozen in this session thaws, with any default of its kind, to
\* the value of the last Freeze on it
ThawsWhatWasFrozen ==
    alive => \A k \in DOMAIN frozen : \A d \in Defaults :
                d.kind = frozen[k].kind => Thaw(json, k, d) = frozen[k]

\* C1: after FreezeT(k, v), ThawT(k, d) returns v for every default d, and
\* keeps doing so over any Thaw calls and Freeze calls on other keys, until
\* the next Freeze on k: the last Freeze on k wins.
C1_LastFreezeWins ==
    /\ ThawsWhatWasFrozen
    /\ (/\ last.op = "Thaw"
        /\ last.key \in DOMAIN frozen
        /\ last.def.kind = frozen[last.key].kind) => last.ret = frozen[last.key]

\* A ThawInt that returned an integer above INT32_MAX frozen before the
\* other key was frozen, and not the default
C1_Witness ==
    /\ last.op = "Thaw"
    /\ last.key = "a"
    /\ "b" \in DOMAIN frozen
    /\ "a" \in DOMAIN frozen
    /\ frozen["a"] = IntArg(Two32 - 1)
    /\ last.def = IntArg(7)
    /\ last.ret = IntArg(Two32 - 1)

\* C2: a Thaw of a key that is absent from the store returns exactly the
\* supplied default, and no Thaw adds or changes a key: the store (and the
\* file) are the same before and after it.
C2_ThawLeavesStore ==
    [][last'.op = "Thaw" =>
         /\ json' = json
         /\ file' = file
         /\ last'.key \notin DOMAIN json => last'.ret = last'.def]_vars

\* A Thaw of an absent key, on a store that holds the other key, returned
\* its default
C2_Witness ==
    /\ last.op = "Thaw"
    /\ last.key \notin DOMAIN json
    /\ json # EmptyObj
    /\ last.ret = last.def

\* Every key the earlier session froze and saved, and this session has not
\* frozen again, thaws to the value the earlier session froze last
ThawsWhatWasSaved ==
    alive => \A k \in DOMAIN saved \ DOMAIN frozen : \A d \in Defaults :
                d.kind = saved[k].kind => Thaw(json, k, d) = saved[k]

\* C3: the file is written when the settings object is destroyed and only
\* then; when the path resolved and saving succeeds it then holds the
\* store's content, and a settings object constructed afterwards returns
\* for every key the value last frozen for it in the earlier session.
C3_SavedOnDestroy ==
    /\ []ThawsWhatWasSaved
    /\ [][/\ file' # file => last'.op = "Destroy" /\ last'.save
          /\ (last'.op = "Destroy" /\ last'.save /\ last'.log = <<>>)
                => file' = JsonFile(Serialize(json))]_vars

\* A second session thawed a float, saved by the first and not frozen
\* again, to the saved value and not to the default
C3_Witness ==
    /\ last.op = "Thaw"
    /\ last.key \in DOMAIN saved \ DOMAIN frozen
    /\ saved[last.key] = FloatArg(-3)
    /\ last.def = FloatArg(4)
    /\ last.ret = FloatArg(-3)

\* GetConfigPath found no usable directory: no variable set, or the
\* directory is missing (and mkdir failed), cannot be stat'ed, or is no
\* directory
NoConfigDir ==
    \/ ConfigHome(env) = Unset
    \/ Stat(ConfigHome(env), dirState) \in {"absent", "noaccess", "notdir"}

\* C4: without a usable config directory GetConfigPath returns the empty
\* path; the object is still constructed, with an empty store on which
\* Freeze and Thaw work in memory, and its destruction writes no file.
C4_NoConfigDir ==
    /\ [](alive /\ NoConfigDir =>
            /\ path = ""
            /\ last.op = "Construct" =>
                  /\ json = EmptyObj
                  /\ last.log[Len(last.log)] = "settings will not be saved"
            /\ ThawsWhatWasFrozen)
    /\ [][last'.op = "Destroy" /\ path = "" =>
            file' = file /\ ~last'.save]_vars

\* The config directory is a file: a value frozen in memory was thawed
C4_Witness ==
    /\ alive
    /\ Stat(ConfigHome(env), dirState) = "notdir"
    /\ path = ""
    /\ last.op = "Thaw"
    /\ last.key \in DOMAIN frozen
    /\ last.ret = frozen[last.key]
    /\ last.ret # last.def

\* C5, as claimed: a session whose settings file failed to load leaves the
\* file as it was when the settings object is destroyed.
C5_FileLeftAsItWas ==
    [][(last'.op = "Destroy" /\ path # "" /\ file = CorruptFile)
          => file' = file]_vars

\* C5, amended: a settings file that fails to load is only logged, the
\* store starts empty and works; destroying the object then saves the store
\* over the file that failed to load.
C5_UnreadableFileOverwritten ==
    /\ [](alive /\ path # "" /\ file = CorruptFile =>
            /\ last.op = "Construct"
                  => json = EmptyObj /\ last.log = <<"cannot load settings">>
            /\ ThawsWhatWasFrozen)
    /\ [][(/\ last'.op = "Destroy"
           /\ path # ""
           /\ file = CorruptFile
           /\ last'.log = <<>>) => file' = JsonFile(Serialize(json))]_vars

\* The settings file was unreadable and the session's store was saved over it
C5_Witness ==
    /\ last.op = "Destroy"
    /\ last.found = "corrupt"
    /\ last.save
    /\ last.log = <<>>
    /\ file.state = "json"
    /\ "a" \in DOMAIN file.doc

-----------------------------------------------------------------------------
(* GtkGLWidget: pointer events *)

\* The bits of a GDK event's state
ButtonMasks   == {"BUTTON1", "BUTTON2", "BUTTON3"}
ModifierMasks == {"SHIFT", "CONTROL", "MOD1"}
PointerStates == SUBSET {"BUTTON1", "BUTTON3", "SHIFT", "CONTROL"}

\* A MouseEvent as MouseEvent event = {} leaves it
NoMouseEvent == [type |-> "MOTION", x |-> 0, y |-> 0, button |-> "NONE",
                 shiftDown |-> FALSE, controlDown |-> FALSE,
                 scrollDelta |-> 0]

\* Lines 473-479: the button of the MouseEvent
ButtonOf(button, state) ==
    IF button = 1 \/ "BUTTON1" \in state THEN "LEFT"
    ELSE IF button = 2 \/ "BUTTON2" \in state THEN "MIDDLE"
    ELSE IF button = 3 \/ "BUTTON3" \in state THEN "RIGHT"
    ELSE NoMouseEvent.button

\* Lines 469-488: the MouseEvent process_pointer_event builds
MouseEventOf(type, x, y, state, button, scroll_delta) ==
    [type        |-> type,
     x           |-> x,
     y           |-> y,
     button      |-> ButtonOf(button, state),
     shiftDown   |-> "SHIFT" \in state,
     controlDown |-> "CONTROL" \in state,
     scrollDelta |-> IF scroll_delta # 0 THEN scroll_delta
                     ELSE NoMouseEvent.scrollDelta]

\* A process_pointer_event that reports every event it delivered as consumed
process_pointer_event_greedy(type, x, y, state, button, scroll_delta, cbRet) ==
    [built    |-> 1,
     event    |-> MouseEventOf(type, x, y, state, button, scroll_delta),
     called   |-> IF cb.onMouseEvent THEN 1 ELSE 0,
     cbRet    |-> cbRet,
     consumed |-> cb.onMouseEvent,
     button   |-> button,
     state    |-> state]

\* process_pointer_event: the event, how often onMouseEvent was called
\* and what is returned, onMouseEvent returning cbRet when it is called;
\* button and state are kept as they came
process_pointer_event(type, x, y, state, button, scroll_delta, cbRet) ==
    [built    |-> 1,
     event    |-> MouseEventOf(type, x, y, state, button, scroll_delta),
     called   |-> IF cb.onMouseEvent THEN 1 ELSE 0,
     cbRet    |-> cbRet,
     consumed |-> IF cb.onMouseEvent THEN cbRet ELSE FALSE,
     button   |-> button,
     state    |-> state]

\* What a handler that built no MouseEvent leaves
NotProcessed == [built |-> 0, event |-> NoMouseEvent, called |-> 0,
                 cbRet |-> FALSE, consumed |-> FALSE, button |-> 0,
                 state |-> {}]

\* The end of every handler: true when the event was consumed, else the
\* result of Gtk::GLArea's handler, which returns defRet
Handled(op, gdk, r, defRet) ==
    /\ last' = [op |-> op, gdk |-> gdk, built |-> r.built, event |-> r.event,
                called |-> r.called, cbRet |-> r.cbRet,
                consumed |-> r.consumed,
                defaulted |-> ~r.consumed,
                result |-> IF r.consumed THEN TRUE ELSE defRet,
                defRet |-> defRet, button |-> r.button, state |-> r.state]
    /\ UNCHANGED <<win, geom>>
    /\ UNCHANGED widgetVars
    /\ UNCHANGED settingsVars

\* The application sets or clears Window::onMouseEvent
SetOnMouseEvent(set) ==
    /\ cb' = [cb EXCEPT !.onMouseEvent = set]
    /\ last' = [op |-> "SetOnMouseEvent"]
    /\ UNCHANGED <<win, geom, dlg, item, proc,
                   menu, editor, fdlg, timer>>
    /\ UNCHANGED settingsVars

on_motion_notify_event(x, y, state, cbRet, defRet) ==
    /\ proc = "running"
    /\ Handled("on_motion_notify_event", "MOTION_NOTIFY",
            process_pointer_event("MOTION", x, y, state, 0, 0, cbRet), defRet)

\* gdk_type is BUTTON_PRESS, 2BUTTON_PRESS or 3BUTTON_PRESS
on_button_press_event(gdk_type, x, y, state, button, cbRet, defRet) ==
    IF gdk_type = "BUTTON_PRESS"
    THEN Handled("on_button_press_event", gdk_type,
                 process_pointer_event("PRESS", x, y, state, button, 0, cbRet),
                 defRet)
    ELSE IF gdk_type = "2BUTTON_PRESS"
    THEN Handled("on_button_press_event", gdk_type,
                 process_pointer_event("DBL_PRESS", x, y, state, button, 0,
                                       cbRet),
                 defRet)
    ELSE Handled("on_button_press_event", gdk_type, NotProcessed, defRet)

on_button_release_event(x, y, state, button, cbRet, defRet) ==
    /\ proc = "running"
    /\ Handled("on_button_release_event", "BUTTON_RELEASE",
            process_pointer_event("RELEASE", x, y, state, button, 0, cbRet),
            defRet)

\* A GDK scroll event: a direction with no delta, or a smooth scroll with
\* its deltas
ScrollEvents ==
    [direction : {"UP", "DOWN", "LEFT", "RIGHT"}, delta_y : {0}]
    \cup [direction : {"SMOOTH"}, delta_y : {-1, 0, 1}]

\* Lines 532-539: 1, -1, or 0 when the handler returns false at once
ScrollDelta(scroll) ==
    IF scroll.delta_y < 0 \/ scroll.direction = "UP" THEN 1
    ELSE IF scroll.delta_y > 0 \/ scroll.direction = "DOWN" THEN -1
    ELSE 0

on_scroll_event(scroll, x, y, state, cbRet, defRet) ==
    IF ScrollDelta(scroll) # 0
    THEN Handled("on_scroll_event", scroll,
                 process_pointer_event("SCROLL_VERT", x, y, state, 0,
                                       ScrollDelta(scroll), cbRet),
                 defRet)
    ELSE /\ last' = [op |-> "on_scroll_event", gdk |-> scroll, built |-> 0,
                     event |-> NoMouseEvent, called |-> 0,
                     cbRet |-> FALSE, consumed |-> FALSE,
                     defaulted |-> FALSE,
                     result |-> FALSE, defRet |-> defRet]
         /\ UNCHANGED <<win, geom>>
         /\ UNCHANGED widgetVars
         /\ UNCHANGED settingsVars

on_leave_notify_event(x, y, state, cbRet, defRet) ==
    /\ proc = "running"
    /\ Handled("on_leave_notify_event", "LEAVE_NOTIFY",
            process_pointer_event("LEAVE", x, y, state, 0, 0, cbRet), defRet)

-----------------------------------------------------------------------------
(* The render surface under the pointer *)

Xs == {0, 3}
Ys == {4}
GdkButtons == {1, 2, 3, 8}

InitPointer ==
    /\ MemorySettings
    /\ NewWidgets
    /\ last = [op |-> "none"]

NextPointer ==
    \/ \E set \in BOOLEAN : SetOnMouseEvent(set)
    \/ \E x \in Xs, y \in Ys, state \in PointerStates, cbRet \in BOOLEAN,
          defRet \in BOOLEAN :
            \/ on_motion_notify_event(x, y, state, cbRet, defRet)
            \/ on_leave_notify_event(x, y, state, cbRet, defRet)
            \/ \E button \in GdkButtons :
                 \/ on_button_release_event(x, y, state, button, cbRet, defRet)
                 \/ \E gdk_type \in {"BUTTON_PRESS", "2BUTTON_PRESS",
                                     "3BUTTON_PRESS"} :
                      on_button_press_event(gdk_type, x, y, state, button,
                                            cbRet, defRet)
            \/ \E scroll \in ScrollEvents :
                 on_scroll_event(scroll, x, y, state, cbRet, defRet)

SpecPointer == InitPointer /\ [][NextPointer]_vars

\* The handlers of the render surface, and the events among theirs that
\* are a motion, a press, a double press, a release, a vertical scroll or a
\* leave
PointerHandlers ==
    {"on_motion_notify_event", "on_button_press_event",
     "on_button_release_event", "on_scroll_event", "on_leave_notify_event"}

IsPointerEvent ==
    /\ last.op \in PointerHandlers
    /\ last.op = "on_button_press_event"
          => last.gdk \in {"BUTTON_PRESS", "2BUTTON_PRESS"}
    /\ last.op = "on_scroll_event" => ScrollDelta(last.gdk) # 0

\* C8: for every pointer event one MouseEvent is built and onMouseEvent is
\* called exactly once if it is set; the event is consumed exactly when the
\* callback returns true, and else it is passed to the toolkit's default
\* handler, whose result is returned.
C8_PointerEventDelivered ==
    IsPointerEvent =>
        /\ last.built = 1
        /\ last.called = (IF cb.onMouseEvent THEN 1 ELSE 0)
        /\ last.consumed = (last.called = 1 /\ last.cbRet)
        /\ last.consumed => last.result /\ ~last.defaulted
        /\ ~last.consumed => last.defaulted /\ last.result = last.defRet

\* A scroll down was delivered to onMouseEvent, which did not consume it,
\* and the default handler's true was returned
C8_Witness ==
    /\ last.op = "on_scroll_event"
    /\ last.event.type = "SCROLL_VERT"
    /\ last.event.scrollDelta = -1
    /\ cb.onMouseEvent
    /\ last.called = 1
    /\ ~last.cbRet
    /\ ~last.consumed
    /\ last.defaulted
    /\ last.result

-----------------------------------------------------------------------------
(* GtkGLWidget: key events *)

KeyStates == SUBSET {"SHIFT", "CONTROL", "MOD1"}

Keyvals == {"a", "A", "Escape", "F1", "F12", "Shift_L"}

FunctionKeys == {"F1", "F12"}

\* gdk_keyval_to_lower
KeyvalToLower(keyval) == IF keyval = "A" THEN "a" ELSE keyval

\* gdk_keyval_to_unicode: the character of the key, "" for 0
KeyvalToUnicode(keyval) ==
    CASE keyval = "a"      -> "a"
      [] keyval = "A"      -> "A"
      [] keyval = "Escape" -> "\\x1b"
      [] keyval = "Return" -> "\\r"
      [] OTHER             -> ""

\* keyval - GDK_KEY_F1 + 1
FunctionNumber(keyval) == IF keyval = "F1" THEN 1 ELSE 12

\* A KeyboardEvent as KeyboardEvent event = {} leaves it
NoKeyboardEvent == [type |-> "PRESS", key |-> "CHARACTER", chr |-> "",
                    num |-> 0, shiftDown |-> FALSE, controlDown |-> FALSE]

\* Lines 558-578: the KeyboardEvent of a key, and whether there is one
KeyboardEventOf(type, state, keyval) ==
    LET chr == KeyvalToUnicode(KeyvalToLower(keyval))
        ev  == [NoKeyboardEvent EXCEPT !.type = type,
                                       !.shiftDown = "SHIFT" \in state,
                                       !.controlDown = "CONTROL" \in state]
    IN  IF state \ {"SHIFT", "CONTROL"} # {}
        THEN [translated |-> FALSE, event |-> [NoKeyboardEvent EXCEPT
                                                 !.type = type]]
        ELSE IF chr # ""
        THEN [translated |-> TRUE,
              event |-> [ev EXCEPT !.key = "CHARACTER", !.chr = chr]]
        ELSE IF keyval \in FunctionKeys
        THEN [translated |-> TRUE,
              event |-> [ev EXCEPT !.key = "FUNCTION",
                                   !.num = FunctionNumber(keyval)]]
        ELSE [translated |-> FALSE, event |-> ev]

\* SS.GW is the GraphicsWindow, whose window is the graphics window
GW == "graphics"

\* process_key_event of the render surface of window w: the event goes to
\* SS.GW.KeyboardEvent, which returns gwRet
process_key_event(w, type, state, keyval, gwRet) ==
    LET k == KeyboardEventOf(type, state, keyval)
    IN  IF k.translated
        THEN [translated |-> TRUE, event |-> k.event,
              delivered |-> {GW}, ret |-> gwRet, consumed |-> gwRet]
        ELSE [translated |-> FALSE, event |-> k.event,
              delivered |-> {}, ret |-> FALSE, consumed |-> FALSE]

\* The end of both handlers: true, or Gtk::GLArea's handler and its result
KeyHandled(op, w, r, defRet) ==
    /\ last' = [op |-> op, window |-> w, translated |-> r.translated,
                event |-> r.event, delivered |-> r.delivered,
                ret |-> r.ret, consumed |-> r.consumed,
                defaulted |-> ~r.consumed,
                result |-> IF r.consumed THEN TRUE ELSE defRet]
    /\ UNCHANGED <<win, geom>>
    /\ UNCHANGED widgetVars
    /\ UNCHANGED settingsVars

on_key_press_event(w, state, keyval, gwRet, defRet) ==
    /\ proc = "running"
    /\ KeyHandled("on_key_press_event", w,
               process_key_event(w, "PRESS", state, keyval, gwRet), defRet)

on_key_release_event(w, state, keyval, gwRet, defRet) ==
    /\ proc = "running"
    /\ KeyHandled("on_key_release_event", w,
               process_key_event(w, "RELEASE", state, keyval, gwRet), defRet)

\* The application sets or clears the keyboard callback of a window
SetOnKeyboardEvent(w, set) ==
    /\ cb' = [cb EXCEPT !.onKeyboardEvent[w] = set]
    /\ last' = [op |-> "SetOnKeyboardEvent"]
    /\ UNCHANGED <<win, geom, dlg, item, proc,
                   menu, editor, fdlg, timer>>
    /\ UNCHANGED settingsVars

InitKeys ==
    /\ MemorySettings
    /\ NewWidgets
    /\ last = [op |-> "none"]

NextKeys ==
    \/ \E w \in Windows, set \in BOOLEAN : SetOnKeyboardEvent(w, set)
    \/ \E w \in Windows, state \in KeyStates, keyval \in Keyvals,
          gwRet \in BOOLEAN, defRet \in BOOLEAN :
            \/ on_key_press_event(w, state, keyval, gwRet, defRet)
            \/ on_key_release_event(w, state, keyval, gwRet, defRet)

SpecKeys == InitKeys /\ [][NextKeys]_vars

\* C9: a key event of a window's render surface that translates into a
\* KeyboardEvent is delivered to the keyboard callback registered on that
\* window and is consumed exactly when it returns true; a window with no
\* keyboard callback does not consume the event.
C9_KeyDeliveredToItsWindow ==
    (last.op \in {"on_key_press_event", "on_key_release_event"}
        /\ last.translated) =>
        IF cb.onKeyboardEvent[last.window]
        THEN last.delivered = {last.window} /\ last.consumed = last.ret
        ELSE last.delivered = {} /\ ~last.consumed

\* What the handlers do: every translated key event goes to the graphics
\* window's handler, whichever window received it
KeyDeliveredToGraphicsWindow ==
    (last.op \in {"on_key_press_event", "on_key_release_event"}
        /\ last.translated) =>
        last.delivered = {GW} /\ last.consumed = last.ret

-----------------------------------------------------------------------------
(* Operations that switch over an enum value *)

\* A value of an enum class that is none of its enumerators
Unlisted == "(unlisted)"

Responses  == {"NONE", "OK", "YES", "NO", "CANCEL"}
Indicators == {"NONE", "CHECK_MARK", "RADIO_MARK"}
Types      == {"INFORMATION", "QUESTION", "WARNING", "ERROR"}
Cursors    == {"POINTER", "HAND"}
Kinds      == {"TOPLEVEL", "TOOL"}

\* Gtk::ResponseType: the ids RunModal knows, and one it does not
HandledIds == {"RESPONSE_OK", "RESPONSE_YES", "RESPONSE_NO",
               "RESPONSE_CANCEL", "RESPONSE_NONE", "RESPONSE_CLOSE",
               "RESPONSE_DELETE_EVENT"}
NativeIds  == HandledIds \cup {"RESPONSE_REJECT"}

\* What an int that was never assigned may hold when AddButton uses it
IndeterminateIds == {"RESPONSE_OK", "RESPONSE_REJECT"}

\* The most buttons a dialog of the model gets
MaxButtons == 2

\* ssassert(false, ...): the process is aborted
Aborts(op, arg) ==
    /\ proc' = "aborted"
    /\ last' = [op |-> op, arg |-> arg, buttons |-> Len(dlg.buttons)]
    /\ UNCHANGED <<win, geom, cb, dlg, item,
                   menu, editor, fdlg, timer>>
    /\ UNCHANGED settingsVars

\* An AddButton that gives the No button the id of Cancel
AddButtonNoAsCancel(response, isDefault, indeterminate) ==
    /\ proc = "running"
    /\ Len(dlg.buttons) < MaxButtons
    /\ IF response = "NONE"
       THEN Aborts("AddButton", response)
       ELSE LET responseId ==
                    CASE response = "OK"     -> "RESPONSE_OK"
                      [] response = "YES"    -> "RESPONSE_YES"
                      [] response = "NO"     -> "RESPONSE_CANCEL"
                      [] response = "CANCEL" -> "RESPONSE_CANCEL"
                      [] OTHER               -> indeterminate
            IN  /\ dlg' = [dlg EXCEPT
                             !.buttons = Append(@, responseId),
                             !.default = IF isDefault THEN responseId ELSE @,
                             !.added = Append(@, response)]
                /\ last' = [op |-> "AddButton", arg |-> response,
                            buttons |-> Len(dlg.buttons)]
                /\ UNCHANGED <<win, geom, cb, item, proc,
                               menu, editor, fdlg, timer>>
                /\ UNCHANGED settingsVars

\* MessageDialogImplGtk::AddButton; responseId is never assigned when no
\* case matches
AddButton(response, isDefault, indeterminate) ==
    /\ proc = "running"
    /\ Len(dlg.buttons) < MaxButtons
    /\ IF response = "NONE"
       THEN Aborts("AddButton", response)
       ELSE LET responseId ==
                    CASE response = "OK"     -> "RESPONSE_OK"
                      [] response = "YES"    -> "RESPONSE_YES"
                      [] response = "NO"     -> "RESPONSE_NO"
                      [] response = "CANCEL" -> "RESPONSE_CANCEL"
                      [] OTHER               -> indeterminate
            IN  /\ dlg' = [dlg EXCEPT
                             !.buttons = Append(@, responseId),
                             !.default = IF isDefault THEN responseId ELSE @,
                             !.added = Append(@, response)]
                /\ last' = [op |-> "AddButton", arg |-> response,
                            buttons |-> Len(dlg.buttons)]
                /\ UNCHANGED <<win, geom, cb, item, proc,
                   menu, editor, fdlg, timer>>
                /\ UNCHANGED settingsVars

\* What gtkDialog.run() can return: the id of a button, or that the dialog
\* was closed
RunResults == {dlg.buttons[i] : i \in 1 .. Len(dlg.buttons)}
              \cup {"RESPONSE_DELETE_EVENT", "RESPONSE_NONE"}

\* MessageDialogImplGtk::RunModal, gtkDialog.run() returning native
RunModal(native) ==
    /\ proc = "running"
    /\ native \in RunResults
    /\ IF native \in HandledIds
       THEN /\ last' = [op |-> "RunModal", arg |-> native,
                        ret |-> CASE native = "RESPONSE_OK"     -> "OK"
                                  [] native = "RESPONSE_YES"    -> "YES"
                                  [] native = "RESPONSE_NO"     -> "NO"
                                  [] native = "RESPONSE_CANCEL" -> "CANCEL"
                                  [] OTHER                      -> "NONE"]
            /\ UNCHANGED <<win, geom>>
            /\ UNCHANGED widgetVars
            /\ UNCHANGED settingsVars
       ELSE Aborts("RunModal", native)

\* MenuItemImplGtk::SetIndicator
SetIndicator(type) ==
    /\ proc = "running"
    /\ item' = CASE type = "NONE" -> [item EXCEPT !.has_indicator = FALSE]
                 [] type = "CHECK_MARK" ->
                        [item EXCEPT !.has_indicator = TRUE,
                                     !.draw_as_radio = FALSE]
                 [] type = "RADIO_MARK" ->
                        [item EXCEPT !.has_indicator = TRUE,
                                     !.draw_as_radio = TRUE]
                 [] OTHER -> item
    /\ last' = [op |-> "SetIndicator", arg |-> type]
    /\ UNCHANGED <<win, geom, cb, dlg, proc,
                   menu, editor, fdlg, timer>>
    /\ UNCHANGED settingsVars

\* MessageDialogImplGtk::SetType
SetType(type) ==
    /\ proc = "running"
    /\ dlg' = CASE type = "INFORMATION" ->
                        [dlg EXCEPT !.icon = "dialog-information"]
                [] type = "QUESTION" -> [dlg EXCEPT !.icon = "dialog-question"]
                [] type = "WARNING"  -> [dlg EXCEPT !.icon = "dialog-warning"]
                [] type = "ERROR"    -> [dlg EXCEPT !.icon = "dialog-error"]
                [] OTHER -> dlg
    /\ last' = [op |-> "SetType", arg |-> type]
    /\ UNCHANGED <<win, geom, cb, item, proc,
                   menu, editor, fdlg, timer>>
    /\ UNCHANGED settingsVars

\* What a Gdk::CursorType that was never assigned may hold
IndeterminateCursors == {"ARROW", "WATCH"}

\* WindowImplGtk::SetCursor; the cursor is set when the render surface has
\* a GdkWindow
SetCursor(cursor, realized, indeterminate) ==
    /\ proc = "running"
    /\ LET gdkCursorType == CASE cursor = "POINTER" -> "ARROW"
                              [] cursor = "HAND"    -> "HAND1"
                              [] OTHER              -> indeterminate
       IN  win' = IF realized THEN [win EXCEPT !.cursor = gdkCursorType]
                  ELSE win
    /\ last' = [op |-> "SetCursor", arg |-> cursor]
    /\ UNCHANGED <<geom, cb, dlg, item, proc,
                   menu, editor, fdlg, timer>>
    /\ UNCHANGED settingsVars

\* CreateWindow / WindowImplGtk(kind): a new window, with the hints of a
\* tool window for Kind::TOOL
CreateWindow(kind) ==
    /\ proc = "running"
    /\ win' = CASE kind = "TOPLEVEL" -> NewWindow
                [] kind = "TOOL"     -> [NewWindow EXCEPT !.kind = "UTILITY"]
                [] OTHER             -> NewWindow
    /\ last' = [op |-> "CreateWindow", arg |-> kind]
    /\ UNCHANGED <<geom, cb, dlg, item, proc,
                   menu, editor, fdlg, timer>>
    /\ UNCHANGED settingsVars

InitEnums ==
    /\ MemorySettings
    /\ NewWidgets
    /\ last = [op |-> "none"]

NextEnums ==
    \/ \E response \in Responses \cup {Unlisted}, isDefault \in BOOLEAN,
          indeterminate \in IndeterminateIds :
            AddButton(response, isDefault, indeterminate)
    \/ \E native \in NativeIds : RunModal(native)
    \/ \E type \in Indicators \cup {Unlisted} : SetIndicator(type)
    \/ \E type \in Types \cup {Unlisted} : SetType(type)
    \/ \E cursor \in Cursors \cup {Unlisted}, realized \in BOOLEAN,
          indeterminate \in IndeterminateCursors :
            SetCursor(cursor, realized, indeterminate)
    \/ \E kind \in Kinds \cup {Unlisted} : CreateWindow(kind)

SpecEnums == InitEnums /\ [][NextEnums]_vars

\* The last operation was given an enum value it does not handle
UnhandledValue ==
    \/ last.op \in {"AddButton", "SetIndicator", "SetType", "SetCursor",
                    "CreateWindow"} /\ last.arg = Unlisted
    \/ last.op = "AddButton" /\ last.arg = "NONE"
    \/ last.op = "RunModal" /\ last.arg \notin HandledIds

\* C10, as claimed: every operation that takes an enum value fails a hard
\* assertion when the value is not one it handles.
C10_UnhandledValueAsserts == UnhandledValue => proc = "aborted"

\* What the operations do: AddButton with Response::NONE (no button is
\* added) and RunModal on an unrecognised native response abort, and nothing
\* else does; AddButton given any other value adds a button.
OnlyTheDialogAsserts ==
    /\ proc = "aborted" <=>
          \/ last.op = "AddButton" /\ last.arg = "NONE"
          \/ last.op = "RunModal" /\ last.arg \notin HandledIds
    /\ last.op = "AddButton" =>
          Len(dlg.buttons) = last.buttons + (IF last.arg = "NONE" THEN 0 ELSE 1)

-----------------------------------------------------------------------------
(* The message dialog: buttons and what RunModal returns *)

\* The Responses a button can be added with
ButtonResponses == {"OK", "YES", "NO", "CANCEL"}

\* The application builds a message dialog and runs it
NextDialog ==
    \/ \E response \in Responses \cup {Unlisted}, isDefault \in BOOLEAN,
          indeterminate \in IndeterminateIds :
            AddButton(response, isDefault, indeterminate)
    \/ \E native \in NativeIds : RunModal(native)
    \/ \E type \in Types : SetType(type)

SpecDialog == InitEnums /\ [][NextDialog]_vars

\* C11: RunModal returns r when the user activates a button that was added
\* with a response r of OK, YES, NO, CANCEL, whatever else was added, and
\* NONE when the dialog is closed without activating a button; such a
\* button is added under an id that no other of the four responses gets.
C11_RunModalReturnsTheButton ==
    /\ (last.op = "RunModal" /\ proc = "running") =>
          /\ \A i \in 1 .. Len(dlg.buttons) :
                (dlg.buttons[i] = last.arg /\ dlg.added[i] \in ButtonResponses)
                    => last.ret = dlg.added[i]
          /\ last.arg \in {"RESPONSE_DELETE_EVENT", "RESPONSE_NONE"}
                => last.ret = "NONE"
    /\ Len(dlg.added) = Len(dlg.buttons)
    /\ \A i, j \in 1 .. Len(dlg.buttons) :
          (dlg.added[i] \in ButtonResponses /\ dlg.added[j] \in ButtonResponses
              /\ dlg.buttons[i] = dlg.buttons[j]) => dlg.added[i] = dlg.added[j]

\* The second of the buttons Yes and No was activated and RunModal
\* returned NO
C11_Witness ==
    /\ last.op = "RunModal"
    /\ proc = "running"
    /\ dlg.added = <<"YES", "NO">>
    /\ last.arg = dlg.buttons[2]
    /\ last.ret = "NO"

-----------------------------------------------------------------------------
(* Menus and menu bars *)

Labels == {"a", "b"}

\* The most children a menu or a menu bar of the model gets
MaxChildren == 3

\* What every operation on a menu leaves alone
OtherThanMenu ==
    /\ UNCHANGED <<win, geom, cb, dlg, item, proc, editor, fdlg, timer>>
    /\ UNCHANGED settingsVars

\* MenuImplGtk::AddItem
AddItem(label) ==
    /\ proc = "running"
    /\ Len(menu.gtkMenu) < MaxChildren
    /\ menu' = [menu EXCEPT
                  !.menuItems = Append(@, label),
                  !.gtkMenu = Append(@, [kind |-> "item", label |-> label]),
                  !.added = Append(@, [op |-> "AddItem", label |-> label])]
    /\ last' = [op |-> "AddItem", arg |-> label]
    /\ OtherThanMenu

\* MenuImplGtk::AddSubMenu
AddSubMenu(label) ==
    /\ proc = "running"
    /\ Len(menu.gtkMenu) < MaxChildren
    /\ menu' = [menu EXCEPT
                  !.menuItems = Append(@, label),
                  !.subMenus = Append(@, label),
                  !.gtkMenu = Append(@, [kind |-> "submenu", label |-> label]),
                  !.added = Append(@, [op |-> "AddSubMenu", label |-> label])]
    /\ last' = [op |-> "AddSubMenu", arg |-> label]
    /\ OtherThanMenu

\* MenuImplGtk::AddSeparator
AddSeparator ==
    /\ proc = "running"
    /\ Len(menu.gtkMenu) < MaxChildren
    /\ menu' = [menu EXCEPT
                  !.gtkMenu = Append(@, [kind |-> "separator", label |-> ""]),
                  !.added = Append(@, [op |-> "AddSeparator", label |-> ""])]
    /\ last' = [op |-> "AddSeparator", arg |-> ""]
    /\ OtherThanMenu

\* A Clear that leaves the subMenus vector as it is
ClearKeepingSubMenus ==
    /\ proc = "running"
    /\ menu' = [menu EXCEPT !.gtkMenu = <<>>, !.menuItems = <<>>,
                            !.added = <<>>]
    /\ last' = [op |-> "Clear", arg |-> ""]
    /\ OtherThanMenu

\* MenuImplGtk::Clear: foreach removes every child of the native menu
Clear ==
    /\ proc = "running"
    /\ menu' = [menu EXCEPT !.gtkMenu = <<>>, !.menuItems = <<>>,
                            !.subMenus = <<>>, !.added = <<>>]
    /\ last' = [op |-> "Clear", arg |-> ""]
    /\ OtherThanMenu

\* MenuBarImplGtk::AddSubMenu
BarAddSubMenu(label) ==
    /\ proc = "running"
    /\ Len(menu.gtkMenuBar) < MaxChildren
    /\ menu' = [menu EXCEPT
                  !.barSubMenus = Append(@, label),
                  !.gtkMenuBar = Append(@, [kind |-> "submenu",
                                            label |-> label]),
                  !.barAdded = Append(@, [op |-> "AddSubMenu",
                                          label |-> label])]
    /\ last' = [op |-> "BarAddSubMenu", arg |-> label]
    /\ OtherThanMenu

\* MenuBarImplGtk::Clear
BarClear ==
    /\ proc = "running"
    /\ menu' = [menu EXCEPT !.gtkMenuBar = <<>>, !.barSubMenus = <<>>,
                            !.barAdded = <<>>]
    /\ last' = [op |-> "BarClear", arg |-> ""]
    /\ OtherThanMenu

NextMenus ==
    \/ \E label \in Labels : AddItem(label)
    \/ \E label \in Labels : AddSubMenu(label)
    \/ AddSeparator
    \/ Clear
    \/ \E label \in Labels : BarAddSubMenu(label)
    \/ BarClear

SpecMenus == InitEnums /\ [][NextMenus]_vars

\* The native child an operation appends
ChildOf(a) ==
    [kind |-> CASE a.op = "AddItem"    -> "item"
                [] a.op = "AddSubMenu" -> "submenu"
                [] OTHER               -> "separator",
     label |-> a.label]

\* The labels of the entries of a history that were added by one of ops
LabelsOf(added, ops) ==
    LET Test(a) == a.op \in ops
        sel == SelectSeq(added, Test)
    IN  [i \in 1 .. Len(sel) |-> sel[i].label]

\* C12: the native menu's children are, in insertion order, what was added
\* since the last Clear, menuItems has an entry per AddItem and AddSubMenu
\* and subMenus one per AddSubMenu; after Clear all three are empty; the
\* same for the menu bar and its subMenus.
C12_MenuMirrorsWhatWasAdded ==
    /\ menu.gtkMenu = [i \in 1 .. Len(menu.added) |-> ChildOf(menu.added[i])]
    /\ menu.menuItems = LabelsOf(menu.added, {"AddItem", "AddSubMenu"})
    /\ menu.subMenus = LabelsOf(menu.added, {"AddSubMenu"})
    /\ menu.gtkMenuBar =
          [i \in 1 .. Len(menu.barAdded) |-> ChildOf(menu.barAdded[i])]
    /\ menu.barSubMenus = LabelsOf(menu.barAdded, {"AddSubMenu"})
    /\ last.op = "Clear" =>
          menu.gtkMenu = <<>> /\ menu.menuItems = <<>> /\ menu.subMenus = <<>>
    /\ last.op = "BarClear" =>
          menu.gtkMenuBar = <<>> /\ menu.barSubMenus = <<>>

\* A menu holding an item, a separator and a submenu, beside a menu bar
\* that is not empty
C12_Witness ==
    /\ Len(menu.gtkMenu) = 3
    /\ menu.gtkMenu[1].kind = "item"
    /\ menu.gtkMenu[2].kind = "separator"
    /\ menu.gtkMenu[3].kind = "submenu"
    /\ menu.menuItems = <<"a", "b">>
    /\ menu.subMenus = <<"b">>
    /\ menu.gtkMenuBar # <<>>

-----------------------------------------------------------------------------
(* A menu item: its checked state and its trigger *)

\* The most activations of the item by the user
MaxActivations == 3

\* GtkMenuItem::on_activate: Gtk::CheckMenuItem::on_activate toggles the
\* checked state, then onTrigger is called unless the event is synthetic
on_activate(it) ==
    LET called == ~it.synthetic_event /\ cb.onTrigger
    IN  [it EXCEPT !.active = ~@,
                   !.triggered = IF called THEN @ + 1 ELSE @]

\* A set_active that does not mark the activation as synthetic
set_active_unmarked(it, active) ==
    IF it.active = active THEN it ELSE on_activate(it)

\* GtkMenuItem::set_active: Gtk::CheckMenuItem::set_active emits activate
set_active(it, active) ==
    IF it.active = active
    THEN it
    ELSE [on_activate([it EXCEPT !.synthetic_event = TRUE])
             EXCEPT !.synthetic_event = FALSE]

\* What every operation on the menu item leaves alone
OtherThanItem ==
    /\ UNCHANGED <<win, geom, cb, dlg, proc, menu, editor, fdlg, timer>>
    /\ UNCHANGED settingsVars

\* A SetActive without the assertion
SetActiveUnchecked(active) ==
    /\ proc = "running"
    /\ item' = set_active(item, active)
    /\ last' = [op |-> "SetActive", arg |-> active,
                triggered |-> item'.triggered - item.triggered]
    /\ OtherThanItem

\* MenuItemImplGtk::SetActive
SetActive(active) ==
    /\ proc = "running"
    /\ IF item.has_indicator
       THEN /\ item' = set_active(item, active)
            /\ last' = [op |-> "SetActive", arg |-> active,
                        triggered |-> item'.triggered - item.triggered]
            /\ OtherThanItem
       ELSE Aborts("SetActive", active)

\* The user activates the item: GTK emits activate
Activate ==
    /\ proc = "running"
    /\ item.activated < MaxActivations
    /\ LET it == on_activate(item)
       IN  /\ item' = [it EXCEPT
                         !.activated = IF cb.onTrigger THEN @ + 1 ELSE @]
           /\ last' = [op |-> "Activate", arg |-> cb.onTrigger,
                       triggered |-> it.triggered - item.triggered]
    /\ OtherThanItem

\* The application sets or clears onTrigger of the item, or onEditingDone
\* or onFullScreen of the window
SetCallback(field, set) ==
    /\ proc = "running"
    /\ cb' = CASE field = "onTrigger"     -> [cb EXCEPT !.onTrigger = set]
               [] field = "onEditingDone" -> [cb EXCEPT !.onEditingDone = set]
               [] field = "onFullScreen"  -> [cb EXCEPT !.onFullScreen = set]
    /\ last' = [op |-> "SetCallback", arg |-> field]
    /\ UNCHANGED <<win, geom, dlg, item, proc, menu, editor, fdlg, timer>>
    /\ UNCHANGED settingsVars

NextMenuItem ==
    \/ \E type \in Indicators : SetIndicator(type)
    \/ \E active \in BOOLEAN : SetActive(active)
    \/ Activate
    \/ \E set \in BOOLEAN : SetCallback("onTrigger", set)

SpecMenuItem == InitEnums /\ [][NextMenuItem]_vars

\* C13: onTrigger is called exactly once for each activation by the user
\* (if it is set) and never by SetActive, whether or not SetActive changes
\* the checked state; between calls the synthetic-event flag is false.
C13_TriggeredByTheUserOnly ==
    /\ item.triggered = item.activated
    /\ ~item.synthetic_event
    /\ (last.op = "SetActive" /\ proc = "running") => last.triggered = 0
    /\ last.op = "Activate" =>
          last.triggered = (IF last.arg THEN 1 ELSE 0)

\* The user activated the item, with onTrigger set, after a SetActive that
\* had changed the checked state, and onTrigger was called
C13_Witness ==
    /\ last.op = "Activate"
    /\ last.arg
    /\ last.triggered = 1
    /\ item.activated = 2
    /\ item.has_indicator
    /\ item.active

\* C16: SetActive fails its assertion exactly when the item's indicator is
\* NONE, which it is initially and after SetIndicator(NONE) and is not
\* after SetIndicator(CHECK_MARK) or SetIndicator(RADIO_MARK); when it
\* succeeds the item's checked state is the argument.
C16_SetActiveNeedsAnIndicator ==
    /\ ~item.has_indicator
    /\ [](last.op = "SetIndicator" =>
             item.has_indicator = (last.arg # "NONE"))
    /\ [][/\ item'.has_indicator # item.has_indicator
               => last'.op = "SetIndicator"
          /\ last'.op = "SetActive" =>
               /\ proc' = "aborted" <=> ~item.has_indicator
               /\ proc' = "running" => item'.active = last'.arg]_vars

\* SetActive failed on an item that had been given a radio mark and then no
\* indicator
C16_Witness ==
    /\ last.op = "SetActive"
    /\ proc = "aborted"
    /\ item.draw_as_radio
    /\ ~item.has_indicator

\* SetActive(true) succeeded on an unchecked item with a check mark
C16_WitnessChecked ==
    /\ last.op = "SetActive"
    /\ proc = "running"
    /\ last.arg
    /\ item.active
    /\ item.activated = 0

-----------------------------------------------------------------------------
(* The button of a MouseEvent *)

\* MouseEvent::Button of a native button number
ButtonNumbered(n) ==
    CASE n = 1 -> "LEFT" [] n = 2 -> "MIDDLE" [] n = 3 -> "RIGHT"
      [] OTHER -> "NONE"

\* MouseEvent::Button of a button mask
ButtonMasked(m) ==
    CASE m = "BUTTON1" -> "LEFT" [] m = "BUTTON2" -> "MIDDLE"
      [] m = "BUTTON3" -> "RIGHT" [] OTHER -> "NONE"

\* C17, as claimed: the MouseEvent of a press, double press or release of
\* button 1, 2 or 3 has the button LEFT, MIDDLE or RIGHT of that number,
\* whichever other buttons are held; the MouseEvent of a motion has the
\* held button, and NONE when no button is held.
C17_ButtonThatCausedTheEvent ==
    /\ (/\ last.op \in {"on_button_press_event", "on_button_release_event"}
        /\ last.built = 1
        /\ last.button \in {1, 2, 3})
          => last.event.button = ButtonNumbered(last.button)
    /\ last.op = "on_motion_notify_event" =>
          LET held == last.state \cap ButtonMasks
          IN  /\ held = {} => last.event.button = "NONE"
              /\ \A b \in held : held = {b} =>
                    last.event.button = ButtonMasked(b)

-----------------------------------------------------------------------------
(* File dialogs *)

\* The extension lists of the filters an application adds
ExtensionLists == {<<>>, <<"">>, <<"step", "stp">>, <<"step">>}

\* The most filters a dialog of the model gets
MaxFilters == 2

\* What front() of an empty vector can do: end the process, or yield
\* whatever is in memory
UndefinedReads == {"(crash)", "(garbage)"}

\* std::vector::front: the first element; of an empty vector, undefined
Front(seq, ub) ==
    IF seq # <<>> THEN [value |-> seq[1], undefined |-> "no"]
    ELSE IF ub = "(crash)" THEN [value |-> "", undefined |-> "crashed"]
    ELSE [value |-> ub, undefined |-> "garbage"]

\* The dialog once a call of front() returned r: what it was, in history
After(d, r) ==
    IF r.undefined = "no" THEN d ELSE [d EXCEPT !.undefined = r.undefined]

\* FileDialogImplGtk::GetExtension: the extension and whether reading it
\* was defined
GetExtension(d, ub) ==
    LET filterIndex == IF d.filter = 0 THEN Len(d.filters) ELSE d.filter - 1
    IN  IF filterIndex < Len(d.extensions)
        THEN [value |-> d.extensions[filterIndex + 1], undefined |-> "no"]
        ELSE Front(d.extensions, ub)

\* FileDialogImplGtk::FilterChanged: the current name gets the extension
\* of the filter, unless that is empty
FilterChanged(d, ub) ==
    LET extension == GetExtension(d, ub)
    IN  IF extension.undefined = "crashed" \/ extension.value = ""
        THEN After(d, extension)
        ELSE [After(d, extension) EXCEPT !.name.ext = extension.value]

\* gtkDialog.set_filter: FilterChanged is connected to the change of the
\* filter property
set_filter(d, i, ub) ==
    IF d.filter = i THEN d ELSE FilterChanged([d EXCEPT !.filter = i], ub)

\* The index in seq of its first element equal to x, Len(seq) + 1 if none
Find(seq, x) ==
    IF \E i \in 1 .. Len(seq) : seq[i] = x
    THEN CHOOSE i \in 1 .. Len(seq) :
            seq[i] = x /\ \A j \in 1 .. i - 1 : seq[j] # x
    ELSE Len(seq) + 1

\* A SetExtension that selects the last filter with the extension
SetExtensionLast(d, extension, ub) ==
    LET matches == {i \in 1 .. Len(d.extensions) : d.extensions[i] = extension}
    IN  IF matches # {} /\ matches \subseteq 1 .. Len(d.filters)
        THEN set_filter(d, CHOOSE i \in matches : \A j \in matches : j <= i,
                        ub)
        ELSE IF d.filters # <<>> THEN set_filter(d, 1, ub)
        ELSE [d EXCEPT !.undefined =
                         IF ub = "(crash)" THEN "crashed" ELSE "garbage"]

\* FileDialogImplGtk::SetExtension; filters.front() of no filters is
\* undefined: the process ends, or set_filter gets what is in memory
SetExtension(d, extension, ub) ==
    LET extensionIndex == Find(d.extensions, extension) - 1
    IN  IF extensionIndex < Len(d.filters)
        THEN set_filter(d, extensionIndex + 1, ub)
        ELSE IF d.filters # <<>> THEN set_filter(d, 1, ub)
        ELSE [d EXCEPT !.undefined =
                         IF ub = "(crash)" THEN "crashed" ELSE "garbage"]

\* What is left to say of an operation that made the dialog d: the process
\* is gone if a read ended it
FileDialogBecomes(d, op, arg) ==
    /\ fdlg' = d
    /\ proc' = IF d.undefined = "crashed" THEN "crashed" ELSE proc
    /\ last' = [op |-> op, arg |-> arg,
                was |-> [folder |-> fdlg.folder, filter |-> fdlg.filter]]
    /\ UNCHANGED <<env, dirState, file, alive, path, saved, win, geom, cb,
                   dlg, item, menu, editor, timer>>

\* CreateOpenFileDialog, CreateSaveFileDialog
CreateFileDialog(action) ==
    /\ proc = "running"
    /\ FileDialogBecomes([NewFileDialog EXCEPT !.action = action],
                         "CreateFileDialog", action)
    /\ UNCHANGED <<json, frozen>>

\* FileDialogImplGtk::AddFilter; add_filter selects the filter when none
\* is selected
AddFilter(extensions, ub) ==
    /\ proc = "running"
    /\ Len(fdlg.filters) < MaxFilters
    /\ LET first == Front(extensions, ub)
           d1 == [After(fdlg, first) EXCEPT
                    !.extensions = Append(@, first.value),
                    !.filters = Append(@, extensions)]
       IN  FileDialogBecomes(
               IF first.undefined = "crashed" THEN After(fdlg, first)
               ELSE IF d1.filter = 0 THEN set_filter(d1, Len(d1.filters), ub)
               ELSE d1,
               "AddFilter", extensions)
    /\ UNCHANGED <<json, frozen>>

\* The user picks a folder, types a name and selects a filter
UserChooses(folder, stem, i) ==
    /\ proc = "running"
    /\ i \in 1 .. Len(fdlg.filters)
    /\ \E ub \in UndefinedReads :
          FileDialogBecomes(
              set_filter([fdlg EXCEPT !.folder = folder, !.name.stem = stem],
                         i, ub),
              "UserChooses", i)
    /\ UNCHANGED <<json, frozen>>

\* FileDialogImplGtk::FreezeChoices
FreezeChoices(key, ub) ==
    /\ proc = "running"
    /\ alive
    /\ LET extension == GetExtension(fdlg, ub)
           jf == FreezeString(json, "Dialog_" \o key \o "_Folder",
                              fdlg.folder)
           ff == ObjectAdd(frozen, "Dialog_" \o key \o "_Folder",
                           StringArg(fdlg.folder))
       IN  IF extension.undefined = "crashed"
           THEN /\ json' = jf
                /\ frozen' = ff
                /\ FileDialogBecomes(After(fdlg, extension),
                                     "FreezeChoices", key)
           ELSE /\ json' = FreezeString(jf, "Dialog_" \o key \o "_Filter",
                                        extension.value)
                /\ frozen' = ObjectAdd(ff, "Dialog_" \o key \o "_Filter",
                                       StringArg(extension.value))
                /\ FileDialogBecomes(
                       [After(fdlg, extension) EXCEPT
                          !.chosen = <<[folder |-> fdlg.folder,
                                        filter |-> fdlg.filter,
                                        filters |-> fdlg.filters,
                                        defined |-> fdlg.undefined = "no"
                                            /\ extension.undefined = "no"]>>],
                       "FreezeChoices", key)

\* FileDialogImplGtk::ThawChoices; the folder of the empty path is the
\* working directory
ThawChoices(key, ub) ==
    /\ proc = "running"
    /\ alive
    /\ LET folder == ThawString(json, "Dialog_" \o key \o "_Folder", "")
           d1 == [fdlg EXCEPT !.folder = IF folder = "" THEN "/cwd"
                                         ELSE folder]
       IN  FileDialogBecomes(
               SetExtension(d1, ThawString(json,
                                           "Dialog_" \o key \o "_Filter", ""),
                            ub),
               "ThawChoices", key)
    /\ UNCHANGED <<json, frozen>>

\* FileDialogImplGtk::RunModal, gtkDialog.run() returning response
FileRunModal(response, ub) ==
    /\ proc = "running"
    /\ LET extension == GetExtension(fdlg, ub)
       IN  IF fdlg.action = "SAVE" /\ fdlg.name.stem = ""
           THEN IF extension.undefined = "crashed"
                THEN FileDialogBecomes(After(fdlg, extension),
                                       "FileRunModal", FALSE)
                ELSE FileDialogBecomes(
                         [After(fdlg, extension) EXCEPT
                            !.name = [stem |-> "untitled",
                                      ext |-> extension.value]],
                         "FileRunModal", response = "RESPONSE_OK")
           ELSE FileDialogBecomes(fdlg, "FileRunModal",
                                  response = "RESPONSE_OK")
    /\ UNCHANGED <<json, frozen>>

\* The settings key of the dialog
FileKey == "d"

NextFileDialog ==
    \/ \E action \in {"OPEN", "SAVE"} : CreateFileDialog(action)
    \/ \E extensions \in ExtensionLists, ub \in UndefinedReads :
          AddFilter(extensions, ub)
    \/ \E folder \in {"/cwd", "/a"}, stem \in {"", "x"},
          i \in 1 .. MaxFilters : UserChooses(folder, stem, i)
    \/ \E ub \in UndefinedReads : FreezeChoices(FileKey, ub)
    \/ \E ub \in UndefinedReads : ThawChoices(FileKey, ub)
    \/ \E response \in {"RESPONSE_OK", "RESPONSE_CANCEL"},
          ub \in UndefinedReads : FileRunModal(response, ub)

SpecFileDialog == InitEnums /\ [][NextFileDialog]_vars

\* C18, as claimed: the extension list has one entry per filter added, and
\* no operation reads the first element of an empty list, a dialog without
\* filters and an AddFilter with an empty extension list included.
C18_NoFrontOfAnEmptyList ==
    /\ Len(fdlg.extensions) = Len(fdlg.filters)
    /\ fdlg.undefined = "no"
    /\ proc = "running"


\* ThawChoices has returned on a dialog whose choices were frozen, with the
\* filters it had then, every read having been defined
ThawedTheChoices ==
    /\ last.op = "ThawChoices"
    /\ proc = "running"
    /\ fdlg.undefined = "no"
    /\ fdlg.chosen # <<>>
    /\ fdlg.chosen[1].defined
    /\ fdlg.chosen[1].filters = fdlg.filters

\* C14, as claimed: FreezeChoices followed by ThawChoices on a dialog with
\* the same filters restores the folder and selects the filter that was
\* selected at freeze time, for every list of filters; only the keys
\* Dialog_<key>_Folder and Dialog_<key>_Filter are written.
C14_ChoicesRoundTrip ==
    /\ ThawedTheChoices =>
          /\ fdlg.folder = fdlg.chosen[1].folder
          /\ fdlg.filter = fdlg.chosen[1].filter
    /\ DOMAIN json \subseteq {"Dialog_" \o FileKey \o "_Folder",
                              "Dialog_" \o FileKey \o "_Filter"}

\* C14, amended: the folder is restored and the filter selected is the
\* first one whose first extension is that of the filter selected at freeze
\* time, which is that filter when the first extensions of the filters are
\* pairwise distinct; only the two keys are written.
C14_ChoicesRestoredByExtension ==
    /\ ThawedTheChoices =>
          LET was == fdlg.chosen[1].filter
              n == Len(fdlg.extensions)
          IN  /\ fdlg.folder = fdlg.chosen[1].folder
              /\ fdlg.extensions[fdlg.filter] = fdlg.extensions[was]
              /\ \A i \in 1 .. n :
                    fdlg.extensions[i] = fdlg.extensions[was]
                        => fdlg.filter <= i
              /\ (\A i, j \in 1 .. n :
                     fdlg.extensions[i] = fdlg.extensions[j] => i = j)
                    => fdlg.filter = was
    /\ DOMAIN json \subseteq {"Dialog_" \o FileKey \o "_Folder",
                              "Dialog_" \o FileKey \o "_Filter"}

\* ThawChoices brought back the second of two filters and the folder /a
\* in a dialog that showed the first filter and the working directory
C14_Witness ==
    /\ ThawedTheChoices
    /\ Len(fdlg.filters) = 2
    /\ fdlg.extensions[1] # fdlg.extensions[2]
    /\ last.was = [folder |-> "/cwd", filter |-> 1]
    /\ fdlg.folder = "/a"
    /\ fdlg.filter = 2

-----------------------------------------------------------------------------
(* GtkEditorOverlay: the inline editor of a window *)

\* The keys of the editor's keyboard, and the texts ShowEditor is given
EditorKeyvals == {"a", "Escape", "Return"}
EditorTexts == {"", "1"}

\* Gtk::Widget::is_visible of the entry: the entry and all its ancestors
\* are marked visible; the overlay and its boxes are shown by the
\* constructors, the window by SetVisible
is_editing(e) == e.visible /\ win.visible

\* WindowImplGtk::IsEditorVisible
IsEditorVisible == is_editing(editor)

\* add_modal_grab and remove_modal_grab: gtk_grab_add does nothing for a
\* widget that has the grab, gtk_grab_remove nothing for one that has not
start_editing(e, val) ==
    LET e1 == [e EXCEPT !.text = val]
    IN  IF ~is_editing(e1)
        THEN [e1 EXCEPT !.visible = TRUE, !.focus = "entry",
                        !.has_grab = TRUE]
        ELSE e1

stop_editing(e) ==
    IF is_editing(e)
    THEN [e EXCEPT !.has_grab = FALSE, !.visible = FALSE, !.focus = "gl"]
    ELSE e

\* An on_activate that calls onEditingDone twice
overlay_on_activate_twice(e, hides) ==
    IF cb.onEditingDone
    THEN [e |-> IF hides THEN stop_editing(e) ELSE e,
          done |-> <<e.text, e.text>>]
    ELSE [e |-> e, done |-> <<>>]

\* GtkEditorOverlay::on_activate: onEditingDone, if it is set, is called
\* with the text of the entry, and calls HideEditor or not (hides); done
\* is the arguments of the calls of onEditingDone
overlay_on_activate(e, hides) ==
    IF cb.onEditingDone
    THEN [e |-> IF hides THEN stop_editing(e) ELSE e, done |-> <<e.text>>]
    ELSE [e |-> e, done |-> <<>>]

\* The texts the entry can have after the character a was typed into it:
\* it is inserted at the cursor and replaces the selection
Typed(text) ==
    CASE text = ""  -> {"a"}
      [] text = "1" -> {"a", "1a", "a1"}
      [] OTHER      -> {}

\* _entry.event: the entry emits activate for a press of Return, inserts
\* the character of a press of a, and does nothing for the other events
entry_event(e, type, keyval, typed, hides) ==
    IF type = "PRESS" /\ keyval = "Return"
    THEN overlay_on_activate(e, hides)
    ELSE IF type = "PRESS" /\ keyval = "a"
    THEN [e |-> [e EXCEPT !.text = typed], done |-> <<>>]
    ELSE [e |-> e, done |-> <<>>]

\* GtkEditorOverlay::on_key_press_event and on_key_release_event: handled
\* says whether the handler returned true, and not Gtk::Fixed's false
overlay_on_key_event(e, type, keyval, typed, hides) ==
    IF is_editing(e)
    THEN IF type = "PRESS" /\ keyval = "Escape"
         THEN [e |-> stop_editing(e), done |-> <<>>, handled |-> TRUE]
         ELSE [e |-> entry_event(e, type, keyval, typed, hides).e,
               done |-> entry_event(e, type, keyval, typed, hides).done,
               handled |-> TRUE]
    ELSE [e |-> e, done |-> <<>>, handled |-> FALSE]

\* gtk_propagate_event for a key event of the window: the widget that has
\* the grab handles it first; if it does not, the window gives it to its
\* focus widget, the entry or the render surface, whose handler is
\* process_key_event. to is the widget that handled the event
key_event(w, type, keyval, typed, hides, gwRet) ==
    LET e == editor
        o == overlay_on_key_event(e, type, keyval, typed, hides)
        p == process_key_event(w, type, {}, keyval, gwRet)
        n == entry_event(e, type, keyval, typed, hides)
    IN  IF e.has_grab /\ o.handled
        THEN [e |-> o.e, done |-> o.done, to |-> "overlay",
              delivered |-> {}, event |-> NoKeyboardEvent]
        ELSE IF e.focus = "gl"
        THEN [e |-> e, done |-> <<>>, to |-> "gl",
              delivered |-> p.delivered, event |-> p.event]
        ELSE [e |-> n.e, done |-> n.done, to |-> "entry",
              delivered |-> {}, event |-> NoKeyboardEvent]

\* What every operation on the editor leaves alone
OtherThanEditor ==
    /\ UNCHANGED <<win, geom, cb, dlg, item, proc, menu, fdlg, timer>>
    /\ UNCHANGED settingsVars

\* WindowImplGtk::ShowEditor
ShowEditor(text) ==
    /\ proc = "running"
    /\ editor' = start_editing(editor, text)
    /\ last' = [op |-> "ShowEditor", was |-> editor]
    /\ OtherThanEditor

\* WindowImplGtk::HideEditor
HideEditor ==
    /\ proc = "running"
    /\ editor' = stop_editing(editor)
    /\ last' = [op |-> "HideEditor", was |-> editor]
    /\ OtherThanEditor

\* The user presses a key that was up, in the window, which is shown
KeyPress(w, keyval, typed, hides, gwRet) ==
    /\ proc = "running"
    /\ win.visible
    /\ keyval \notin editor.down
    /\ LET r == key_event(w, "PRESS", keyval, typed, hides, gwRet)
       IN  /\ typed \in IF keyval = "a" /\ r.to # "gl"
                        THEN Typed(editor.text) ELSE {editor.text}
           /\ hides => r.done # <<>>
           /\ editor' = [r.e EXCEPT
                           !.down = @ \cup {keyval},
                           !.held = IF r.to = "gl" THEN @
                                    ELSE @ \cup {keyval}]
           /\ last' = [op |-> "KeyPress", keyval |-> keyval, was |-> editor,
                       to |-> r.to, delivered |-> r.delivered,
                       event |-> r.event, done |-> r.done, hides |-> hides]
    /\ OtherThanEditor

\* The user releases a key that was down; a window that is not shown gets
\* no event
KeyRelease(w, keyval, gwRet) ==
    /\ proc = "running"
    /\ keyval \in editor.down
    /\ LET r == IF win.visible
                THEN key_event(w, "RELEASE", keyval, editor.text, FALSE,
                               gwRet)
                ELSE [e |-> editor, done |-> <<>>, to |-> "none",
                      delivered |-> {}, event |-> NoKeyboardEvent]
       IN  /\ editor' = [r.e EXCEPT !.down = @ \ {keyval},
                                    !.held = @ \ {keyval}]
           /\ last' = [op |-> "KeyRelease", keyval |-> keyval,
                       was |-> editor, to |-> r.to,
                       delivered |-> r.delivered, event |-> r.event,
                       done |-> r.done, hides |-> FALSE]
    /\ OtherThanEditor

NextEditor ==
    \/ \E visible \in BOOLEAN : SetVisible(visible)
    \/ \E set \in BOOLEAN : SetCallback("onEditingDone", set)
    \/ \E text \in EditorTexts : ShowEditor(text)
    \/ HideEditor
    \/ \E w \in Windows, keyval \in EditorKeyvals,
          typed \in EditorTexts \cup UNION {Typed(t) : t \in EditorTexts},
          hides \in BOOLEAN, gwRet \in BOOLEAN :
            KeyPress(w, keyval, typed, hides, gwRet)
    \/ \E w \in Windows, keyval \in EditorKeyvals, gwRet \in BOOLEAN :
            KeyRelease(w, keyval, gwRet)

SpecEditor == InitEnums /\ [][NextEditor]_vars

\* C15: after any sequence of ShowEditor, HideEditor and presses of
\* Escape, the overlay holds its modal grab if and only if IsEditorVisible
\* is true.
C15_GrabIffEditorVisible == editor.has_grab <=> IsEditorVisible

\* C19: a key event that arrives while the editor is visible, and the
\* release of a key whose press the editor consumed, Escape included, is not
\* delivered to the keyboard handler of the application.
C19_EditorKeystrokesStayInTheEditor ==
    /\ last.op \in {"KeyPress", "KeyRelease"}
    /\ is_editing(last.was) \/ last.keyval \in last.was.held
    => last.delivered = {}

\* The last operation was a key press that the overlay handled while the
\* entry was shown
PressedWhileEditing(keyval) ==
    /\ last.op = "KeyPress"
    /\ last.keyval = keyval
    /\ last.to = "overlay"
    /\ last.was.visible

\* C20: the entry is hidden only by HideEditor, called by the application
\* (from within onEditingDone or not), or by a press of Escape; Escape hides
\* it without a call of onEditingDone; Return calls onEditingDone, if it is
\* set, exactly once, with the text of the entry, and leaves the entry shown
\* unless onEditingDone called HideEditor.
C20_EditingEndsByHideEditorOrEscape ==
    /\ [](PressedWhileEditing("Escape")
            => ~editor.visible /\ last.done = <<>>)
    /\ [](PressedWhileEditing("Return")
            => /\ last.done = IF cb.onEditingDone THEN <<last.was.text>>
                              ELSE <<>>
               /\ editor.visible = ~last.hides)
    /\ [][editor.visible /\ ~editor'.visible
            => \/ last'.op = "HideEditor"
               \/ last'.op = "KeyPress" /\ last'.keyval = "Escape"
               \/ last'.op = "KeyPress" /\ last'.keyval = "Return"
                  /\ last'.hides]_vars

\* Return was pressed after a was typed into the editor shown with 1:
\* onEditingDone was called once, with the text typed, and the editor is
\* still shown
C20_Witness ==
    /\ PressedWhileEditing("Return")
    /\ cb.onEditingDone
    /\ last.done = <<"1a">>
    /\ ~last.hides
    /\ IsEditorVisible
    /\ editor.has_grab

-----------------------------------------------------------------------------
(* TimerImplGtk *)

MaxWindUps == 3

Milliseconds == {0, 20}

\* What a handler does whose timer was destroyed: it reads onTimeout of the
\* freed object
UseAfterFree == {"onTimeout", "nothing", "crashed"}

\* What every operation on the timer leaves alone
OtherThanTimer ==
    /\ UNCHANGED <<win, geom, cb, dlg, item, menu, editor, fdlg>>
    /\ UNCHANGED settingsVars

\* A WindUp that does not disconnect _connection
wind_up_connected(t) ==
    [t EXCEPT !.wound = @ + 1, !.connection = t.wound + 1,
              !.sources = @ \cup {t.wound + 1}]

\* The body of WindUp: _connection, if it is not empty, is disconnected,
\* which removes its timeout from the main loop; then a timeout is connected
wind_up(t) ==
    [t EXCEPT !.wound = @ + 1, !.connection = t.wound + 1,
              !.sources = (@ \ {t.connection}) \cup {t.wound + 1}]

\* TimerImplGtk::WindUp
WindUp(milliseconds) ==
    /\ proc = "running"
    /\ timer.alive
    /\ timer.wound < MaxWindUps
    /\ timer' = wind_up(timer)
    /\ last' = [op |-> "WindUp", arg |-> milliseconds, id |-> timer.wound + 1,
                was |-> timer]
    /\ UNCHANGED proc
    /\ OtherThanTimer

\* The application sets or clears onTimeout of the timer
SetOnTimeout(set) ==
    /\ proc = "running"
    /\ timer.alive
    /\ timer' = [timer EXCEPT !.onTimeout = set]
    /\ last' = [op |-> "SetOnTimeout", arg |-> set]
    /\ UNCHANGED proc
    /\ OtherThanTimer

\* The main loop runs the handler of the timeout id, which is due. The
\* handler calls onTimeout if it is set, and onTimeout winds the timer up
\* again or not (rewinds); the handler returns false, so the main loop
\* removes the timeout, and a connection to it becomes empty. The handler
\* of a destroyed timer does one of the things in UseAfterFree
Timeout(id, rewinds, freed) ==
    /\ proc = "running"
    /\ id \in timer.sources
    /\ rewinds => timer.alive /\ timer.onTimeout /\ timer.wound < MaxWindUps
    /\ freed = IF timer.alive THEN "nothing" ELSE freed
    /\ LET called == IF timer.alive THEN timer.onTimeout
                     ELSE freed = "onTimeout"
           t1 == [timer EXCEPT !.invoked = IF called THEN Append(@, id)
                                           ELSE @]
           t2 == IF rewinds THEN wind_up(t1) ELSE t1
       IN  /\ timer' = [t2 EXCEPT
                          !.sources = @ \ {id},
                          !.connection = IF @ = id THEN 0 ELSE @]
           /\ proc' = IF freed = "crashed" THEN "crashed" ELSE proc
           /\ last' = [op |-> "Timeout", id |-> id, alive |-> timer.alive,
                       called |-> called, rewinds |-> rewinds,
                       was |-> timer]
    /\ OtherThanTimer

\* The TimerRef is reset: ~TimerImplGtk destroys _connection, which does
\* not disconnect it
DestroyTimer ==
    /\ proc = "running"
    /\ timer.alive
    /\ timer' = [timer EXCEPT !.alive = FALSE, !.connection = 0]
    /\ last' = [op |-> "DestroyTimer", was |-> timer]
    /\ UNCHANGED proc
    /\ OtherThanTimer

NextTimer ==
    \/ \E milliseconds \in Milliseconds : WindUp(milliseconds)
    \/ \E set \in BOOLEAN : SetOnTimeout(set)
    \/ \E id \in 1..MaxWindUps, rewinds \in BOOLEAN, freed \in UseAfterFree :
          Timeout(id, rewinds, freed)
    \/ DestroyTimer

\* The main loop runs the handler of a timeout that is due
SpecTimer ==
    /\ InitEnums
    /\ [][NextTimer]_vars
    /\ WF_vars(\E id \in 1..MaxWindUps, rewinds \in BOOLEAN,
                  freed \in UseAfterFree : Timeout(id, rewinds, freed))

\* C21: the timeout of a WindUp calls onTimeout at most once, and a WindUp
\* cancels the timeout that is pending: of the timeouts of consecutive
\* WindUp calls only the last one is connected, it is handled in the end
\* unless it is cancelled or the timer destroyed, and its handler calls
\* onTimeout, if it is set, once.
C21_OnlyTheLastWindUpTimesOut ==
    /\ [](timer.alive => /\ timer.sources \subseteq {timer.wound}
                         /\ timer.connection \in {0, timer.wound}
                         /\ \A i, j \in 1..Len(timer.invoked) :
                              timer.invoked[i] = timer.invoked[j] => i = j)
    /\ [](last.op = "Timeout" /\ last.alive
            => /\ last.id = last.was.wound
               /\ last.called = last.was.onTimeout
               /\ last.id \notin timer.sources
               /\ timer.invoked = IF last.called
                                  THEN Append(last.was.invoked, last.id)
                                  ELSE last.was.invoked)
    /\ \A id \in 1..MaxWindUps :
          (timer.alive /\ id \in timer.sources)
             ~> (id \notin timer.sources \/ ~timer.alive)

\* WindUp was called three times and then the timeout of the third call
\* called onTimeout, the only call of it
C21_Witness ==
    /\ last.op = "Timeout"
    /\ last.alive
    /\ last.id = 3
    /\ last.called
    /\ ~last.rewinds
    /\ timer.invoked = <<3>>
    /\ timer.sources = {}

\* C22: no timeout handler of a timer runs once the timer was destroyed.
C22_NoHandlerOfADestroyedTimer == last.op = "Timeout" => last.alive

-----------------------------------------------------------------------------
(* GtkWindow: full screen *)

\* The bits of new_window_state of a GdkEventWindowState
WindowStates == SUBSET {"MAXIMIZED", "FULLSCREEN"}

\* What every operation on the full screen state leaves alone
OtherThanWindow ==
    /\ UNCHANGED <<geom, cb, dlg, item, proc, menu, editor, fdlg, timer>>
    /\ UNCHANGED settingsVars

\* GtkWindow::on_window_state_event: passed is the arguments of the calls
\* of onFullScreen, result what Gtk::Window's handler returned
on_window_state_event(new_window_state, defRet) ==
    /\ proc = "running"
    /\ LET fullscreen == "FULLSCREEN" \in new_window_state
       IN  /\ win' = [win EXCEPT !.is_fullscreen = {fullscreen},
                                 !.state_event = <<new_window_state>>]
           /\ last' = [op |-> "on_window_state_event",
                       arg |-> new_window_state,
                       passed |-> IF cb.onFullScreen THEN <<fullscreen>>
                                  ELSE <<>>,
                       result |-> defRet]
    /\ OtherThanWindow

\* WindowImplGtk::IsFullScreen, GtkWindow::is_full_screen: the value of
\* _is_fullscreen, any value while it is indeterminate
IsFullScreen(ret) ==
    /\ proc = "running"
    /\ ret \in win.is_fullscreen
    /\ last' = [op |-> "IsFullScreen", ret |-> ret]
    /\ UNCHANGED win
    /\ OtherThanWindow

\* WindowImplGtk::SetFullScreen: fullscreen() and unfullscreen() ask the
\* window manager, whose answer is a window-state event, if it gives one
SetFullScreen(fullScreen) ==
    /\ proc = "running"
    /\ last' = [op |-> "SetFullScreen", arg |-> fullScreen]
    /\ UNCHANGED win
    /\ OtherThanWindow

NextFullScreen ==
    \/ \E kind \in Kinds : CreateWindow(kind)
    \/ \E set \in BOOLEAN : SetCallback("onFullScreen", set)
    \/ \E new_window_state \in WindowStates, defRet \in BOOLEAN :
          on_window_state_event(new_window_state, defRet)
    \/ \E ret \in BOOLEAN : IsFullScreen(ret)
    \/ \E fullScreen \in BOOLEAN : SetFullScreen(fullScreen)

SpecFullScreen == InitEnums /\ [][NextFullScreen]_vars

\* C23: IsFullScreen returns false for a new window that had no
\* window-state event, and after window-state events the fullscreen bit of
\* the last one, which is also what that event passed to onFullScreen.
C23_IsFullScreenIsTheLastEvent ==
    /\ last.op = "IsFullScreen"
         => last.ret = /\ win.state_event # <<>>
                       /\ "FULLSCREEN" \in win.state_event[1]
    /\ last.op = "on_window_state_event"
         => /\ win.is_fullscreen = {"FULLSCREEN" \in last.arg}
            /\ last.passed = IF cb.onFullScreen
                             THEN <<"FULLSCREEN" \in last.arg>> ELSE <<>>

====
